---- MODULE Spec2Model ----
(***************************************************************************)
(* The contextual memory ingestion pipeline of jarvix                      *)
(* (src/python_src/src/jarvix/ingest/pipeline.py), its three record        *)
(* loaders (ingest/connectors/*.py) and the MemoryManager wrapper          *)
(* (memory/memory_manager.py), as a state machine.                         *)
(*                                                                         *)
(* Python values are modelled as follows.  A str is a TLA+ string and is   *)
(* processed character by character (SubSeq(s, i, i)).  None is the        *)
(* reserved string None below, which no input contains.  A dict is a       *)
(* function whose DOMAIN is its key set; a missing key is a key outside    *)
(* the DOMAIN.  A list is a sequence.                                      *)
(***************************************************************************)
EXTENDS Integers, Sequences, FiniteSets, TLC

(***************************************************************************)
(* Bounds of the model.                                                    *)
(***************************************************************************)
MaxRecords == 2      \* longest events / extractions array of a generated file
MaxLimit == 2        \* largest integer value of IngestConfig.limit

(***************************************************************************)
(* Python values and str methods.                                          *)
(***************************************************************************)
None == "<None>"

EmptyDict == <<>>

IsStr(v) == v # None

\* bool(v) for v a str or None
Truthy(v) == v # None /\ v # ""

\* Python's  a or b  on str / None operands
Or(a, b) == IF Truthy(a) THEN a ELSE b

\* dict.get(k, default)
Get(d, k, default) == IF k \in DOMAIN d THEN d[k] ELSE default

Char(s, i) == SubSeq(s, i, i)

IsSpace(c) == c \in {" ", "\t", "\n", "\r"}

RECURSIVE LStrip(_)
LStrip(s) == IF s # "" /\ IsSpace(Char(s, 1)) THEN LStrip(Tail(s)) ELSE s

RECURSIVE RStrip(_)
RStrip(s) ==
    IF s # "" /\ IsSpace(Char(s, Len(s))) THEN RStrip(SubSeq(s, 1, Len(s) - 1)) ELSE s

\* str.strip()
Strip(s) == RStrip(LStrip(s))

UpperChars == "ABCDEFGHIJKLMNOPQRSTUVWXYZ"
LowerChars == "abcdefghijklmnopqrstuvwxyz"

LowerChar(c) ==
    IF \E i \in 1..Len(UpperChars) : Char(UpperChars, i) = c
    THEN Char(LowerChars, CHOOSE i \in 1..Len(UpperChars) : Char(UpperChars, i) = c)
    ELSE c

\* str.lower()
RECURSIVE Lower(_)
Lower(s) == IF s = "" THEN "" ELSE LowerChar(Char(s, 1)) \o Lower(Tail(s))

\* str.replace(old, " ") for a one-character old
RECURSIVE ReplaceBySpace(_, _)
ReplaceBySpace(s, old) ==
    IF s = "" THEN ""
    ELSE (IF Char(s, 1) = old THEN " " ELSE Char(s, 1)) \o ReplaceBySpace(Tail(s), old)

\* str.split(): the maximal runs of non-whitespace characters, in order
RECURSIVE SplitFrom(_, _)
SplitFrom(s, cur) ==
    IF s = "" THEN (IF cur = "" THEN <<>> ELSE <<cur>>)
    ELSE IF IsSpace(Char(s, 1))
         THEN (IF cur = "" THEN <<>> ELSE <<cur>>) \o SplitFrom(Tail(s), "")
         ELSE SplitFrom(Tail(s), cur \o Char(s, 1))

Split(s) == SplitFrom(s, "")

Range(f) == {f[i] : i \in DOMAIN f}

(***************************************************************************)
(* datetime: fromisoformat, astimezone(timezone.utc), isoformat, for the   *)
(* shapes YYYY-MM-DD, YYYY-MM-DDTHH:MM:SS and the latter followed by Z or  *)
(* by +HH:MM / -HH:MM (the grammar of Python 3.11 and later; every other   *)
(* string of the model's inputs is one fromisoformat rejects).             *)
(***************************************************************************)
Digits == "0123456789"

IsDigit(c) == \E d \in 0..9 : Char(Digits, d + 1) = c

DigitVal(c) == CHOOSE d \in 0..9 : Char(Digits, d + 1) = c

AllDigits(s) == \A i \in 1..Len(s) : IsDigit(Char(s, i))

RECURSIVE ToInt(_)
ToInt(s) == IF s = "" THEN 0 ELSE 10 * ToInt(SubSeq(s, 1, Len(s) - 1)) + DigitVal(Char(s, Len(s)))

DigitStr(d) == Char(Digits, d + 1)

Pad2(n) == DigitStr(n \div 10) \o DigitStr(n % 10)

Pad4(n) == Pad2(n \div 100) \o Pad2(n % 100)

IsLeap(y) == (y % 4 = 0 /\ y % 100 # 0) \/ y % 400 = 0

DaysInMonth(y, m) ==
    IF m = 2 THEN (IF IsLeap(y) THEN 29 ELSE 28)
    ELSE IF m \in {4, 6, 9, 11} THEN 30 ELSE 31

ParseError == [ok |-> FALSE, y |-> 0, mo |-> 0, d |-> 0, h |-> 0, mi |-> 0, s |-> 0,
               aware |-> FALSE, off |-> 0]

ValidDate(s) ==
    /\ Len(s) >= 10
    /\ AllDigits(SubSeq(s, 1, 4)) /\ Char(s, 5) = "-"
    /\ AllDigits(SubSeq(s, 6, 7)) /\ Char(s, 8) = "-"
    /\ AllDigits(SubSeq(s, 9, 10))
    /\ ToInt(SubSeq(s, 1, 4)) >= 1
    /\ ToInt(SubSeq(s, 6, 7)) \in 1..12
    /\ ToInt(SubSeq(s, 9, 10)) \in 1..DaysInMonth(ToInt(SubSeq(s, 1, 4)), ToInt(SubSeq(s, 6, 7)))

ValidTime(s) ==
    /\ Len(s) >= 19
    /\ AllDigits(SubSeq(s, 12, 13)) /\ Char(s, 14) = ":"
    /\ AllDigits(SubSeq(s, 15, 16)) /\ Char(s, 17) = ":"
    /\ AllDigits(SubSeq(s, 18, 19))
    /\ ToInt(SubSeq(s, 12, 13)) \in 0..23
    /\ ToInt(SubSeq(s, 15, 16)) \in 0..59
    /\ ToInt(SubSeq(s, 18, 19)) \in 0..59

ValidOffset(s) ==
    /\ Len(s) = 25
    /\ Char(s, 20) \in {"+", "-"}
    /\ AllDigits(SubSeq(s, 21, 22)) /\ Char(s, 23) = ":"
    /\ AllDigits(SubSeq(s, 24, 25))
    /\ ToInt(SubSeq(s, 21, 22)) \in 0..23
    /\ ToInt(SubSeq(s, 24, 25)) \in 0..59

OffsetMinutes(s) ==
    (IF Char(s, 20) = "-" THEN -1 ELSE 1)
        * (60 * ToInt(SubSeq(s, 21, 22)) + ToInt(SubSeq(s, 24, 25)))

\* datetime.fromisoformat(s); ok = FALSE stands for the ValueError
FromIsoFormat(s) ==
    IF ~ValidDate(s) THEN ParseError
    ELSE LET date == [ok |-> TRUE, y |-> ToInt(SubSeq(s, 1, 4)), mo |-> ToInt(SubSeq(s, 6, 7)),
                      d |-> ToInt(SubSeq(s, 9, 10)), h |-> 0, mi |-> 0, s |-> 0,
                      aware |-> FALSE, off |-> 0]
         IN  IF Len(s) = 10 THEN date
             ELSE IF ~(Char(s, 11) \in {"T", " "} /\ ValidTime(s)) THEN ParseError
             ELSE LET dt == [date EXCEPT !.h = ToInt(SubSeq(s, 12, 13)),
                                         !.mi = ToInt(SubSeq(s, 15, 16)),
                                         !.s = ToInt(SubSeq(s, 18, 19))]
                  IN  IF Len(s) = 19 THEN dt
                      ELSE IF Len(s) = 20 /\ Char(s, 20) = "Z"
                           THEN [dt EXCEPT !.aware = TRUE, !.off = 0]
                      ELSE IF ValidOffset(s)
                           THEN [dt EXCEPT !.aware = TRUE, !.off = OffsetMinutes(s)]
                      ELSE ParseError

PrevDay(dt) ==
    IF dt.d > 1 THEN [dt EXCEPT !.d = dt.d - 1]
    ELSE IF dt.mo > 1 THEN [dt EXCEPT !.mo = dt.mo - 1, !.d = DaysInMonth(dt.y, dt.mo - 1)]
    ELSE [dt EXCEPT !.y = dt.y - 1, !.mo = 12, !.d = 31]

NextDay(dt) ==
    IF dt.d < DaysInMonth(dt.y, dt.mo) THEN [dt EXCEPT !.d = dt.d + 1]
    ELSE IF dt.mo < 12 THEN [dt EXCEPT !.mo = dt.mo + 1, !.d = 1]
    ELSE [dt EXCEPT !.y = dt.y + 1, !.mo = 1, !.d = 1]

\* dt.astimezone(timezone.utc) for an aware dt
AsTimezoneUtc(dt) ==
    LET m == 60 * dt.h + dt.mi - dt.off
        day == IF m < 0 THEN PrevDay(dt) ELSE IF m >= 1440 THEN NextDay(dt) ELSE dt
        mm == (m + 1440) % 1440
    IN  [day EXCEPT !.h = mm \div 60, !.mi = mm % 60, !.off = 0]

\* dt.isoformat() for an aware dt in UTC without microseconds
IsoFormatUtc(dt) ==
    Pad4(dt.y) \o "-" \o Pad2(dt.mo) \o "-" \o Pad2(dt.d) \o "T"
        \o Pad2(dt.h) \o ":" \o Pad2(dt.mi) \o ":" \o Pad2(dt.s) \o "+00:00"

\* mutant of ToUtc: the value is passed through without conversion
ToUtc_Unconverted(dt_str) == dt_str

\* datetime.MINYEAR and datetime.MAXYEAR: astimezone raises OverflowError
\* when the UTC date leaves this range
MinYear == 1
MaxYear == 9999

Overflows(dt) == AsTimezoneUtc(dt).y \notin MinYear..MaxYear

\* connectors/calendar.py _to_utc; the except clause catches the ValueError
\* of fromisoformat and the OverflowError of astimezone alike
ToUtc(dt_str) ==
    LET dt == FromIsoFormat(dt_str)
    IN  IF ~dt.ok THEN dt_str
        ELSE IF dt.aware
             THEN IF Overflows(dt) THEN dt_str ELSE IsoFormatUtc(AsTimezoneUtc(dt))
        ELSE dt_str

(***************************************************************************)
(* Record loaders: ingest/connectors/calendar.py, vision.py, audio.py.     *)
(* A loader maps the parsed JSON document to the list of (record,          *)
(* metadata) pairs its generator yields, in order.                         *)
(***************************************************************************)
\* str(idx) for idx >= 0
RECURSIVE IntStr(_)
IntStr(n) == IF n < 10 THEN DigitStr(n) ELSE IntStr(n \div 10) \o DigitStr(n % 10)

\* Path(path).stem: the file name without its last suffix
RECURSIVE LastDot(_, _)
LastDot(name, i) == IF i <= 1 THEN 0 ELSE IF Char(name, i) = "." THEN i ELSE LastDot(name, i - 1)

Stem(name) ==
    IF LastDot(name, Len(name)) = 0 \/ LastDot(name, Len(name)) = Len(name) THEN name
    ELSE SubSeq(name, 1, LastDot(name, Len(name)) - 1)

CalendarKeys == <<"summary", "description", "location", "start_utc", "end_utc",
                  "attendees", "organizer", "calendar_name">>
VisionKeys == <<"description", "text", "filename", "date">>
AudioKeys == <<"transcription", "filename", "date">>

CalendarRecord(ev) ==
    LET start == Get(ev, "start", EmptyDict)
        end == Get(ev, "end", EmptyDict)
        start_dt == Or(Get(start, "dateTime", None), Get(start, "date", None))
        end_dt == Or(Get(end, "dateTime", None), Get(end, "date", None))
    IN  [summary |-> Get(ev, "summary", None),
         description |-> Get(ev, "description", None),
         location |-> Get(ev, "location", None),
         start_utc |-> IF Truthy(start_dt) THEN ToUtc(start_dt) ELSE None,
         end_utc |-> IF Truthy(end_dt) THEN ToUtc(end_dt) ELSE None,
         attendees |-> Get(ev, "attendees", None),
         organizer |-> Get(ev, "organizer", None),
         calendar_name |-> Get(ev, "calendar_name", None)]

\* mutant of CalendarMetadata: the synthesized id counts from one
CalendarMetadata_OneBased(name, idx, ev) ==
    LET rec == CalendarRecord(ev)
    IN  [user_id |-> Stem(name),
         source |-> name,
         record_id |-> Get(ev, "event_id", "event-" \o IntStr(idx + 1)),
         timestamp |-> Or(rec.start_utc, rec.end_utc),
         start_utc |-> rec.start_utc,
         end_utc |-> rec.end_utc]

CalendarMetadata(name, idx, ev) ==
    LET rec == CalendarRecord(ev)
    IN  [user_id |-> Stem(name),
         source |-> name,
         record_id |-> Get(ev, "event_id", "event-" \o IntStr(idx)),
         timestamp |-> Or(rec.start_utc, rec.end_utc),
         start_utc |-> rec.start_utc,
         end_utc |-> rec.end_utc]

\* mutant of load_calendar_file: a document without "events" yields one empty event
load_calendar_file_DefaultItem(name, data) ==
    LET events == Get(data, "events", <<EmptyDict>>)
    IN  [i \in 1..Len(events) |->
            [record |-> CalendarRecord(events[i]),
             metadata |-> CalendarMetadata(name, i - 1, events[i])]]

load_calendar_file(name, data) ==
    LET events == Get(data, "events", <<>>)
    IN  [i \in 1..Len(events) |->
            [record |-> CalendarRecord(events[i]),
             metadata |-> CalendarMetadata(name, i - 1, events[i])]]

load_vision_file(name, data) ==
    LET extractions == Get(data, "extractions", <<>>)
    IN  [i \in 1..Len(extractions) |->
            LET ex == extractions[i]
                content == Get(ex, "content", EmptyDict)
            IN  [record |-> [description |-> Get(content, "description", None),
                             text |-> Get(content, "text", None),
                             filename |-> Get(ex, "filename", None),
                             date |-> Get(ex, "date", None)],
                 metadata |-> [user_id |-> Stem(name),
                               source |-> name,
                               record_id |-> Get(ex, "filename", "vision-" \o IntStr(i - 1)),
                               timestamp |-> Get(ex, "date", None)]]]

load_audio_file(name, data) ==
    LET extractions == Get(data, "extractions", <<>>)
    IN  [i \in 1..Len(extractions) |->
            LET ex == extractions[i]
                content == Get(ex, "content", EmptyDict)
            IN  [record |-> [transcription |-> Get(content, "transcription", None),
                             filename |-> Get(ex, "filename", None),
                             date |-> Get(ex, "date", None)],
                 metadata |-> [user_id |-> Stem(name),
                               source |-> name,
                               record_id |-> Get(ex, "filename", "audio-" \o IntStr(i - 1)),
                               timestamp |-> Get(ex, "date", None)]]]

\* the loader table of ingest_file
Loader(c, name, data) ==
    IF c = "calendar" THEN load_calendar_file(name, data)
    ELSE IF c = "vision" THEN load_vision_file(name, data)
    ELSE load_audio_file(name, data)

RecordKeys(c) ==
    IF c = "calendar" THEN CalendarKeys ELSE IF c = "vision" THEN VisionKeys ELSE AudioKeys

(***************************************************************************)
(* Context selector, raw-text fallback and enrichment result               *)
(* (pipeline.py).                                                          *)
(***************************************************************************)
\* _select_context_mems.tokenize for a str or None value
\* mutant of tokenize: words of two characters are kept too
tokenize_KeepsShort(val) ==
    IF ~IsStr(val) THEN <<>>
    ELSE SelectSeq(Split(ReplaceBySpace(ReplaceBySpace(Lower(val), ","), ".")),
                   LAMBDA w : Len(w) >= 2)

tokenize(val) ==
    IF ~IsStr(val) THEN <<>>
    ELSE SelectSeq(Split(ReplaceBySpace(ReplaceBySpace(Lower(val), ","), ".")),
                   LAMBDA w : Len(w) >= 3)

ContextKeys == <<"transcription", "description", "text", "summary">>

RecordTokens(rec) ==
    UNION {Range(tokenize(Get(rec, ContextKeys[k], None))) : k \in 1..Len(ContextKeys)}

MemText(m) == Or(Or(Get(m, "memory", None), Get(m, "text", None)), "")

Score(rec, m) == Cardinality(RecordTokens(rec) \cap Range(tokenize(MemText(m))))

\* the (score, text) pairs of the memories with a positive score, in list order
RECURSIVE Scored(_, _)
Scored(rec, memories) ==
    IF memories = <<>> THEN <<>>
    ELSE (IF Score(rec, Head(memories)) > 0
          THEN <<[score |-> Score(rec, Head(memories)), text |-> MemText(Head(memories))]>>
          ELSE <<>>) \o Scored(rec, Tail(memories))

\* mutant of InsertDesc: an equal score goes in front of the earlier one
RECURSIVE InsertDesc_Unstable(_, _)
InsertDesc_Unstable(sorted, e) ==
    IF sorted = <<>> THEN <<e>>
    ELSE IF Head(sorted).score > e.score
         THEN <<Head(sorted)>> \o InsertDesc_Unstable(Tail(sorted), e)
    ELSE <<e>> \o sorted

\* list.sort(key = score, reverse = True): stable, descending
RECURSIVE InsertDesc(_, _)
InsertDesc(sorted, e) ==
    IF sorted = <<>> THEN <<e>>
    ELSE IF Head(sorted).score >= e.score THEN <<Head(sorted)>> \o InsertDesc(Tail(sorted), e)
    ELSE <<e>> \o sorted

RECURSIVE SortDesc(_)
SortDesc(s) == IF s = <<>> THEN <<>> ELSE InsertDesc(SortDesc(SubSeq(s, 1, Len(s) - 1)), s[Len(s)])

MaxItems == 3

\* mutant of _select_context_mems: the slice is scored[:max_items + 1]
_select_context_mems_OneMore(rec, memories, max_items) ==
    LET scored == SortDesc(Scored(rec, memories))
        n == IF Len(scored) < max_items + 1 THEN Len(scored) ELSE max_items + 1
    IN  [i \in 1..n |-> scored[i].text]

_select_context_mems(rec, memories, max_items) ==
    LET scored == SortDesc(Scored(rec, memories))
        n == IF Len(scored) < max_items THEN Len(scored) ELSE max_items
    IN  [i \in 1..n |-> scored[i].text]

\* json.dumps(record, ensure_ascii=False) of a record of str / None values
JsonValue(v) == IF v = None THEN "null" ELSE "\"" \o v \o "\""

RECURSIVE JsonItems(_, _, _)
JsonItems(rec, keys, i) ==
    IF i > Len(keys) THEN ""
    ELSE (IF i > 1 THEN ", " ELSE "") \o "\"" \o keys[i] \o "\": " \o JsonValue(rec[keys[i]])
            \o JsonItems(rec, keys, i + 1)

\* mutant of JsonDumps: the serialization fails and "" is returned
JsonDumps_Fails(rec, keys) == ""

JsonDumps(rec, keys) == "{" \o JsonItems(rec, keys, 1) \o "}"

\* mutant of FirstText: the test is isinstance(val, str) alone
RECURSIVE FirstText_AnyString(_)
FirstText_AnyString(vals) ==
    IF vals = <<>> THEN None
    ELSE IF IsStr(Head(vals)) THEN Strip(Head(vals))
    ELSE FirstText_AnyString(Tail(vals))

\* the first element of vals that is a str with non-whitespace content, else None
RECURSIVE FirstText(_)
FirstText(vals) ==
    IF vals = <<>> THEN None
    ELSE IF IsStr(Head(vals)) /\ Strip(Head(vals)) # "" THEN Strip(Head(vals))
    ELSE FirstText(Tail(vals))

\* mutant of _record_to_plain_text: record.values() is searched first
_record_to_plain_text_AnyValueFirst(rec, keys) ==
    LET cand == FirstText([k \in 1..Len(ContextKeys) |-> Get(rec, ContextKeys[k], None)])
        anyval == FirstText([k \in 1..Len(keys) |-> rec[keys[k]]])
    IN  IF anyval # None THEN anyval
        ELSE IF cand # None THEN cand
        ELSE JsonDumps(rec, keys)

\* keys is the record's key order (the order of record.values())
_record_to_plain_text(rec, keys) ==
    LET cand == FirstText([k \in 1..Len(ContextKeys) |-> Get(rec, ContextKeys[k], None)])
        anyval == FirstText([k \in 1..Len(keys) |-> rec[keys[k]]])
    IN  IF cand # None THEN cand
        ELSE IF anyval # None THEN anyval
        ELSE JsonDumps(rec, keys)

\* mutant of grok_enrich: the completion is not trimmed
grok_enrich_NoStrip(resp) == Or(resp, "")

\* the value grok_enrich returns for the completion content resp
grok_enrich(resp) == Strip(Or(resp, ""))

(***************************************************************************)
(* Inputs: the connector, the file and its name, the configuration, the    *)
(* memories the service holds beforehand and the completions the           *)
(* enrichment service may answer with.                                     *)
(***************************************************************************)
\* an Optional[...] whose value is not a str: Unset is None, Some(v) is v
Unset == <<>>

Some(v) == <<v>>

Val(o) == o[1]

SetItem(d, k, v) == [j \in DOMAIN d \cup {k} |-> IF j = k THEN v ELSE d[j]]

SeqsUpTo(S, n) == UNION {[1..k -> S] : k \in 0..n}

Connectors == {"calendar", "vision", "audio"}

PathNames == {"bob.json", "cal.v2.json"}

EvDentist == [summary |-> "Dentist",
              start |-> [dateTime |-> "2025-03-01T09:00:00Z"],
              end |-> [dateTime |-> "2025-03-01T10:00:00Z"]]

EvLunch == [event_id |-> "ev42", summary |-> "", description |-> "Lunch with Sam, downtown.",
            start |-> [dateTime |-> "2024-01-01T01:00:00+02:00"],
            end |-> [date |-> "2024-01-02"]]

ExPhoto == [content |-> [description |-> "Photo of Sam at lunch", text |-> "MENU"],
            filename |-> "img1.png", date |-> "2025-01-05"]

ExNote == [content |-> [text |-> " buy milk "]]

ExVoice == [content |-> [transcription |-> "Remind me to call the dentist."],
            filename |-> "a1.wav", date |-> "2025-02-01"]

\* an extraction without content, filename or date: every field of its record is null
ExSilent == [note |-> "silence"]

SourceItems(c) ==
    IF c = "calendar" THEN {EvDentist, EvLunch}
    ELSE IF c = "vision" THEN {ExPhoto, ExNote}
    ELSE {ExVoice, ExSilent}

\* the parsed JSON documents: with the connector's array, or without it
Documents(c) ==
    {[version |-> "1"]}
        \cup (IF c = "calendar"
              THEN {[events |-> s] : s \in SeqsUpTo(SourceItems(c), MaxRecords)}
              ELSE {[extractions |-> s] : s \in SeqsUpTo(SourceItems(c), MaxRecords)})

\* ok = FALSE: path.read_text() or json.loads raises
Files(c) == {[ok |-> FALSE, data |-> EmptyDict]} \cup {[ok |-> TRUE, data |-> d] : d \in Documents(c)}

Limits == {Unset} \cup {Some(n) : n \in 0..MaxLimit}

DefaultUserId == "demo_user"

Configs == [dry_run : BOOLEAN, enrich : BOOLEAN, limit : Limits,
            user_id : {"", DefaultUserId, "alice"}]

SeedMemories ==
    <<[user_id |-> "demo_user", memory |-> "Sam likes sushi."],
      [user_id |-> "demo_user", text |-> "Dentist visit in March"],
      [user_id |-> "bob", memory |-> "Lunch menu: milk, dentist."],
      [user_id |-> "alice", memory |-> "Sam and the dentist had lunch"]>>

\* resp.content of the enrichment completion
Completions == {None, "", " \n", "Lunch with Sam. ", "Dentist visit in March"}

(***************************************************************************)
(* State.                                                                  *)
(***************************************************************************)
VARIABLES
    connector, path, file, cfg,      \* the arguments of ingest_file and the file's content
    mem0,                            \* the memories the memory service holds
    pc,                              \* position of ingest_file
    items, idx,                      \* the loader's pairs and how many the loop has taken
    record, metadata, user_id,       \* locals of the loop body
    processed, stored, occurrence_counts, memories_cache,
    prior_mems, text,
    loaded,                          \* number of pairs the loader generator has produced
    get_log,                         \* user_id of every get_memories call
    fetched,                         \* Some(list get_memories returned), Unset before / if it raised
    enrich_calls,                    \* number of grok_enrich calls
    resp,                            \* completion content of the last grok_enrich call
    add_log,                         \* every add_memory call, in order, with its record's number
    outcome,                         \* terminal outcome of the current record
    skipped, logged,                 \* records skipped / logged in dry-run
    result,                          \* Some(<<processed, stored>>) once ingest_file returned
    error,                           \* the call whose exception left ingest_file, or "none"
    paths, p,                        \* ingest_paths: its (name, file) list and the paths taken
    total_processed, total_stored,   \* ingest_paths: running totals
    totals,                          \* Some(<<total_processed, total_stored>>) once it returned
    history,                         \* ingest_paths: one summary per completed ingest_file call
    h_in, h_out,                     \* a function called on its own: arguments and result
    events,                          \* the steps taken for the records of this call, in order
    chat,                            \* ProactiveAgent: the kinds of the messages of self.chat
    round_idx, streamed_content,     \* chat_message: its locals
    final_response,                  \* Unset (None) or Some(response of the last stream)
    pending,                         \* tool calls of final_response still to be handled
    reply,                           \* Some(string chat_message returned)
    rounds,                          \* number of self.chat.stream() calls of this chat_message
    caught                           \* the exception the except clause caught, or "none"

vars == <<connector, path, file, cfg, mem0, pc, items, idx, record, metadata, user_id,
          processed, stored, occurrence_counts, memories_cache, prior_mems, text,
          loaded, get_log, fetched, enrich_calls, resp, add_log, outcome, skipped, logged,
          result, error, paths, p, total_processed, total_stored, totals, history,
          h_in, h_out, events, chat, round_idx, streamed_content, final_response, pending,
          reply, rounds, caught>>

inputs == <<connector, path, file, cfg>>

\* the variables of ingest_paths
outer == <<paths, p, total_processed, total_stored, totals, history>>

\* the variables of a function called on its own
unit == <<h_in, h_out>>

\* the locals of ingest_file before its loop, and what was observed of a call so far
FreshCall ==
    /\ items = <<>> /\ idx = 0
    /\ record = EmptyDict /\ metadata = EmptyDict /\ user_id = None
    /\ processed = 0 /\ stored = 0
    /\ occurrence_counts = EmptyDict
    /\ memories_cache = Unset
    /\ prior_mems = <<>> /\ text = None
    /\ loaded = 0 /\ get_log = <<>> /\ fetched = Unset /\ enrich_calls = 0
    /\ resp = None /\ add_log = <<>> /\ outcome = "none"
    /\ skipped = 0 /\ logged = 0 /\ result = Unset /\ error = "none"
    /\ events = <<>>

\* ingest_paths is not running
NoPaths ==
    /\ paths = <<>> /\ p = 0 /\ total_processed = 0 /\ total_stored = 0
    /\ totals = Unset /\ history = <<>>

\* no function is called on its own
NoUnit == h_in = <<>> /\ h_out = Unset

\* the variables of ProactiveAgent.chat_message
agent == <<chat, round_idx, streamed_content, final_response, pending, reply, rounds, caught>>

\* the agent after __init__ (the system prompt is in the chat), chat_message not called
NoChat ==
    /\ chat = <<"system">>
    /\ round_idx = 0 /\ streamed_content = "" /\ final_response = Unset
    /\ pending = <<>> /\ reply = Unset /\ rounds = 0 /\ caught = "none"

Init ==
    /\ connector \in Connectors
    /\ path \in PathNames
    /\ file \in Files(connector)
    /\ cfg \in Configs
    /\ mem0 \in {<<>>, SeedMemories}
    /\ pc = "start"
    /\ FreshCall
    /\ NoPaths
    /\ NoUnit
    /\ NoChat

(***************************************************************************)
(* ingest_file, one action per step between two external calls.            *)
(***************************************************************************)
\* the loader generator starts: json.loads(path.read_text()) succeeds
OpenFile ==
    /\ pc = "start"
    /\ file.ok
    /\ items' = Loader(connector, path, file.data)
    /\ pc' = "iter"
    /\ UNCHANGED <<agent, events, outer, unit, inputs, mem0, idx, record, metadata, user_id, processed, stored,
                   occurrence_counts, memories_cache, prior_mems, text, loaded, get_log,
                   fetched, enrich_calls, resp, add_log, outcome, skipped, logged, result,
                   error>>

\* mutant of OpenFileRaises: the unreadable file counts as an empty one
OpenFileRaises_Skipped ==
    /\ pc = "start"
    /\ ~file.ok
    /\ pc' = "returned"
    /\ result' = Some(<<0, 0>>)
    /\ UNCHANGED <<agent, events, outer, unit, inputs, mem0, items, idx, record, metadata, user_id, processed, stored,
                   occurrence_counts, memories_cache, prior_mems, text, loaded, get_log,
                   fetched, enrich_calls, resp, add_log, outcome, skipped, logged, error>>

\* read_text or json.loads raises; nothing in ingest_file catches it
OpenFileRaises ==
    /\ pc = "start"
    /\ ~file.ok
    /\ pc' = "raised"
    /\ error' = "read"
    /\ UNCHANGED <<agent, events, outer, unit, inputs, mem0, items, idx, record, metadata, user_id, processed, stored,
                   occurrence_counts, memories_cache, prior_mems, text, loaded, get_log,
                   fetched, enrich_calls, resp, add_log, outcome, skipped, logged, result>>

\* mutant of HasNext: the limit test is idx > limit
HasNext_OffByOne == idx < Len(items) /\ (IF cfg.limit = Unset THEN TRUE ELSE idx <= Val(cfg.limit))

\* _iter_limited yields one more pair
HasNext == idx < Len(items) /\ (IF cfg.limit = Unset THEN TRUE ELSE idx < Val(cfg.limit))

\* mutant of ResolveUserId: the loader's user_id takes precedence over the configured one
ResolveUserId_MetadataFirst(cfg_user_id, md) ==
    Or(Or(Get(md, "user_id", None), cfg_user_id), "demo_user")

ResolveUserId(cfg_user_id, md) == Or(Or(cfg_user_id, Get(md, "user_id", None)), "demo_user")

\* mutant of NeedsFetch: the test is  if not memories_cache
NeedsFetch_WhenEmpty == IF memories_cache = Unset THEN TRUE ELSE Val(memories_cache) = <<>>

\* if memories_cache is None
NeedsFetch == memories_cache = Unset

\* top of the loop body, up to the memory fetch
NextRecord ==
    /\ pc = "iter"
    /\ HasNext
    /\ idx' = idx + 1
    /\ loaded' = loaded + 1
    /\ processed' = processed + 1
    /\ record' = items[idx + 1].record
    /\ user_id' = ResolveUserId(cfg.user_id, items[idx + 1].metadata)
    /\ metadata' = SetItem(items[idx + 1].metadata, "user_id", user_id')
    /\ pc' = IF NeedsFetch THEN "fetch" ELSE "derive"
    /\ prior_mems' = <<>> /\ text' = None /\ resp' = None /\ outcome' = "none"
    /\ UNCHANGED <<agent, events, outer, unit, inputs, mem0, items, stored, occurrence_counts, memories_cache, get_log,
                   fetched, enrich_calls, add_log, skipped, logged, result, error>>

\* the loop ends (loader exhausted, or idx >= limit after one more pair was
\* taken from the loader) and ingest_file returns (processed, stored)
Return ==
    /\ pc = "iter"
    /\ ~HasNext
    /\ loaded' = IF idx < Len(items) THEN loaded + 1 ELSE loaded
    /\ result' = Some(<<processed, stored>>)
    /\ pc' = "returned"
    /\ UNCHANGED <<agent, events, outer, unit, inputs, mem0, items, idx, record, metadata, user_id, processed, stored,
                   occurrence_counts, memories_cache, prior_mems, text, get_log, fetched,
                   enrich_calls, resp, add_log, outcome, skipped, logged, error>>

\* MemoryManager.get_memories: what the service holds for the user
get_memories(u) == SelectSeq(mem0, LAMBDA m : m.user_id = u)

FetchMemories ==
    /\ pc = "fetch"
    /\ Truthy(user_id)
    /\ memories_cache' = Some(get_memories(user_id))
    /\ fetched' = Some(get_memories(user_id))
    /\ get_log' = Append(get_log, user_id)
    /\ pc' = "derive"
    /\ UNCHANGED <<agent, events, outer, unit, inputs, mem0, items, idx, record, metadata, user_id, processed, stored,
                   occurrence_counts, prior_mems, text, loaded, enrich_calls, resp, add_log,
                   outcome, skipped, logged, result, error>>

\* mutant of FetchMemoriesRaises: the exception is not caught
FetchMemoriesRaises_Propagates ==
    /\ pc = "fetch"
    /\ get_log' = Append(get_log, user_id)
    /\ pc' = "raised"
    /\ UNCHANGED <<agent, events, outer, unit, inputs, mem0, items, idx, record, metadata, user_id, processed, stored,
                   occurrence_counts, memories_cache, prior_mems, text, loaded, fetched,
                   enrich_calls, resp, add_log, outcome, skipped, logged, result, error>>

\* get_memories raises (ValueError or a service error): except: memories_cache = []
FetchMemoriesRaises ==
    /\ pc = "fetch"
    /\ memories_cache' = Some(<<>>)
    /\ get_log' = Append(get_log, user_id)
    /\ pc' = "derive"
    /\ UNCHANGED <<agent, events, outer, unit, inputs, mem0, items, idx, record, metadata, user_id, processed, stored,
                   occurrence_counts, prior_mems, text, loaded, fetched, enrich_calls, resp,
                   add_log, outcome, skipped, logged, result, error>>

\* mutant of CachedMemories: the list is read from the service again for every record
CachedMemories_Refetched == get_memories(user_id)

CachedMemories == IF memories_cache = Unset THEN <<>> ELSE Val(memories_cache)

\* one step taken for the current record
Ev(step) == [rec |-> processed, step |-> step, text |-> None, count |-> 0]

\* the occurrence count c is attached to the metadata of the record with text t
EvCount(t, c) == [rec |-> processed, step |-> "count", text |-> t, count |-> c]

\* the steps up to the derived text: context selection, then grok_enrich or
\* _record_to_plain_text
Deriving == <<Ev("select"), Ev(IF cfg.enrich THEN "enrich" ELSE "raw")>>

\* mutant of Derived: the dry_run test is missing
Derived_IgnoresDryRun(t) ==
    /\ text' = t
    /\ IF ~Truthy(t)
       THEN /\ outcome' = "skip" /\ skipped' = skipped + 1 /\ pc' = "iter"
            /\ events' = events \o Deriving \o <<Ev("skip")>>
            /\ UNCHANGED <<occurrence_counts, metadata, logged>>
       ELSE /\ occurrence_counts' = SetItem(occurrence_counts, t, Get(occurrence_counts, t, 0) + 1)
            /\ metadata' = SetItem(metadata, "occurrence_count", occurrence_counts'[t])
            /\ events' = events \o Deriving \o <<EvCount(t, metadata'["occurrence_count"])>>
            /\ outcome' = "none" /\ logged' = logged /\ pc' = "store"
            /\ UNCHANGED skipped

\* from the derived text t to the store call: skip, count, dry-run
Derived(t) ==
    /\ text' = t
    /\ IF ~Truthy(t)
       THEN /\ outcome' = "skip" /\ skipped' = skipped + 1 /\ pc' = "iter"
            /\ events' = events \o Deriving \o <<Ev("skip")>>
            /\ UNCHANGED <<occurrence_counts, metadata, logged>>
       ELSE /\ occurrence_counts' = SetItem(occurrence_counts, t, Get(occurrence_counts, t, 0) + 1)
            /\ metadata' = SetItem(metadata, "occurrence_count", occurrence_counts'[t])
            /\ IF cfg.dry_run
               THEN /\ outcome' = "dry_run" /\ logged' = logged + 1 /\ pc' = "iter"
                    /\ events' = events \o Deriving
                                    \o <<EvCount(t, metadata'["occurrence_count"]), Ev("dry_run")>>
               ELSE /\ outcome' = "none" /\ logged' = logged /\ pc' = "store"
                    /\ events' = events \o Deriving \o <<EvCount(t, metadata'["occurrence_count"])>>
            /\ UNCHANGED skipped

\* context selection and the grok_enrich call, which returns
EnrichRecord ==
    /\ pc = "derive"
    /\ cfg.enrich
    /\ prior_mems' = _select_context_mems(record, CachedMemories, MaxItems)
    /\ enrich_calls' = enrich_calls + 1
    /\ \E r \in Completions : resp' = r /\ Derived(grok_enrich(r))
    /\ UNCHANGED <<agent, outer, unit, inputs, mem0, items, idx, record, user_id, processed, stored,
                   memories_cache, loaded, get_log, fetched, add_log, result, error>>

\* mutant of EnrichRaises: the exception is caught and the record skipped
EnrichRaises_Swallowed ==
    /\ pc = "derive"
    /\ cfg.enrich
    /\ prior_mems' = _select_context_mems(record, CachedMemories, MaxItems)
    /\ enrich_calls' = enrich_calls + 1
    /\ pc' = "iter"
    /\ events' = events \o <<Ev("select"), Ev("enrich_raised")>>
    /\ error' = "enrich"
    /\ UNCHANGED <<agent, outer, unit, inputs, mem0, items, idx, record, metadata, user_id, processed, stored,
                   occurrence_counts, memories_cache, text, loaded, get_log, fetched, resp,
                   add_log, outcome, skipped, logged, result>>

\* the grok_enrich call raises
EnrichRaises ==
    /\ pc = "derive"
    /\ cfg.enrich
    /\ prior_mems' = _select_context_mems(record, CachedMemories, MaxItems)
    /\ enrich_calls' = enrich_calls + 1
    /\ pc' = "raised"
    /\ events' = events \o <<Ev("select"), Ev("enrich_raised")>>
    /\ error' = "enrich"
    /\ UNCHANGED <<agent, outer, unit, inputs, mem0, items, idx, record, metadata, user_id, processed, stored,
                   occurrence_counts, memories_cache, text, loaded, get_log, fetched, resp,
                   add_log, outcome, skipped, logged, result>>

\* context selection and the raw-text fallback
RawRecord ==
    /\ pc = "derive"
    /\ ~cfg.enrich
    /\ prior_mems' = _select_context_mems(record, CachedMemories, MaxItems)
    /\ Derived(_record_to_plain_text(record, RecordKeys(connector)))
    /\ UNCHANGED <<agent, outer, unit, inputs, mem0, items, idx, record, user_id, processed, stored,
                   memories_cache, loaded, get_log, fetched, enrich_calls, resp, add_log,
                   result, error>>

(***************************************************************************)
(* MemoryManager.add_memory (memory_manager.py).  text is a str or None,   *)
(* messages is Unset (None) or Some(list).  The result tells whether a     *)
(* ValueError is raised and lists the calls made to the mem0 client.       *)
(***************************************************************************)
\* bool(messages)
TruthyList(o) == IF o = Unset THEN FALSE ELSE Val(o) # <<>>

\* mutant of add_memory: the check that text and messages are not both given is missing
add_memory_BothAllowed(uid, txt, msgs, md, inf) ==
    IF ~Truthy(uid) THEN [raises |-> TRUE, client |-> <<>>]
    ELSE IF ~Truthy(txt) /\ ~TruthyList(msgs) THEN [raises |-> TRUE, client |-> <<>>]
    ELSE IF TruthyList(msgs)
         THEN [raises |-> FALSE,
               client |-> <<[messages |-> Val(msgs), user_id |-> uid, metadata |-> md]>>]
    ELSE [raises |-> FALSE,
          client |-> <<[text |-> txt, user_id |-> uid, metadata |-> md, infer |-> inf]>>]

add_memory(uid, txt, msgs, md, inf) ==
    IF ~Truthy(uid) THEN [raises |-> TRUE, client |-> <<>>]
    ELSE IF Truthy(txt) /\ TruthyList(msgs) THEN [raises |-> TRUE, client |-> <<>>]
    ELSE IF ~Truthy(txt) /\ ~TruthyList(msgs) THEN [raises |-> TRUE, client |-> <<>>]
    ELSE IF TruthyList(msgs)
         THEN [raises |-> FALSE,
               client |-> <<[messages |-> Val(msgs), user_id |-> uid, metadata |-> md]>>]
    ELSE IF ~Truthy(txt) THEN [raises |-> TRUE, client |-> <<>>]
    ELSE [raises |-> FALSE,
          client |-> <<[text |-> txt, user_id |-> uid, metadata |-> md, infer |-> inf]>>]

\* mutant of AddCall: infer is left at add_memory's default
AddCall_DefaultInfer ==
    [user_id |-> user_id,
     text |-> text,
     metadata |-> [connector |-> connector,
                   source |-> metadata["source"],
                   record_id |-> Get(metadata, "record_id", None),
                   timestamp |-> Get(metadata, "timestamp", None)],
     infer |-> TRUE]

\* mutant of AddCall: the loop's whole metadata dict is passed on
AddCall_FullMetadata ==
    [user_id |-> user_id, text |-> text, metadata |-> SetItem(metadata, "connector", connector),
     infer |-> FALSE]

\* the arguments of the add_memory call of ingest_file
AddCall ==
    [user_id |-> user_id,
     text |-> text,
     metadata |-> [connector |-> connector,
                   source |-> metadata["source"],
                   record_id |-> Get(metadata, "record_id", None),
                   timestamp |-> Get(metadata, "timestamp", None)],
     infer |-> FALSE]

\* what MemoryManager.add_memory does with the call of ingest_file (no messages)
AddOutcome == add_memory(AddCall.user_id, AddCall.text, Unset, AddCall.metadata, AddCall.infer)

\* mutant of AddMemory: stored is not incremented
AddMemory_NotCounted ==
    /\ pc = "store"
    /\ ~AddOutcome.raises
    /\ mem0' = Append(mem0, [user_id |-> AddOutcome.client[1].user_id,
                             memory |-> AddOutcome.client[1].text,
                             metadata |-> AddOutcome.client[1].metadata])
    /\ add_log' = Append(add_log, [call |-> AddCall, record |-> idx, returned |-> TRUE,
                                   client |-> AddOutcome.client])
    /\ events' = Append(events, Ev("add"))
    /\ outcome' = "stored"
    /\ pc' = "iter"
    /\ UNCHANGED <<agent, outer, unit, inputs, items, idx, record, metadata, user_id, processed,
                   stored, occurrence_counts, memories_cache, prior_mems, text, loaded,
                   get_log, fetched, enrich_calls, resp, skipped, logged, result, error>>

\* MemoryManager.add_memory passes its checks and the client call returns
AddMemory ==
    /\ pc = "store"
    /\ ~AddOutcome.raises
    /\ mem0' = Append(mem0, [user_id |-> AddOutcome.client[1].user_id,
                             memory |-> AddOutcome.client[1].text,
                             metadata |-> AddOutcome.client[1].metadata])
    /\ add_log' = Append(add_log, [call |-> AddCall, record |-> idx, returned |-> TRUE,
                                   client |-> AddOutcome.client])
    /\ events' = Append(events, Ev("add"))
    /\ stored' = stored + 1
    /\ outcome' = "stored"
    /\ pc' = "iter"
    /\ UNCHANGED <<agent, outer, unit, inputs, items, idx, record, metadata, user_id, processed,
                   occurrence_counts, memories_cache, prior_mems, text, loaded, get_log,
                   fetched, enrich_calls, resp, skipped, logged, result, error>>

\* mutant of AddMemoryRaises: the failed call is tried again for the same record
AddMemoryRaises_Retried ==
    /\ pc = "store"
    /\ Len(add_log) < MaxRecords + 2
    /\ add_log' = Append(add_log, [call |-> AddCall, record |-> idx, returned |-> FALSE,
                                   client |-> AddOutcome.client])
    /\ events' = Append(events, Ev("add_raised"))
    /\ UNCHANGED <<agent, outer, unit, inputs, mem0, items, idx, record, metadata, user_id, processed,
                   stored, occurrence_counts, memories_cache, prior_mems, text, loaded,
                   get_log, fetched, enrich_calls, resp, outcome, skipped, logged, result,
                   error, pc>>

\* add_memory raises (ValueError or a service error)
AddMemoryRaises ==
    /\ pc = "store"
    /\ add_log' = Append(add_log, [call |-> AddCall, record |-> idx, returned |-> FALSE,
                                   client |-> AddOutcome.client])
    /\ pc' = "raised"
    /\ events' = Append(events, Ev("add_raised"))
    /\ error' = "add"
    /\ UNCHANGED <<agent, outer, unit, inputs, mem0, items, idx, record, metadata, user_id, processed, stored,
                   occurrence_counts, memories_cache, prior_mems, text, loaded, get_log,
                   fetched, enrich_calls, resp, outcome, skipped, logged, result>>

Next ==
    \/ OpenFile
    \/ OpenFileRaises
    \/ NextRecord
    \/ Return
    \/ FetchMemories
    \/ FetchMemoriesRaises
    \/ EnrichRecord
    \/ EnrichRaises
    \/ RawRecord
    \/ AddMemory
    \/ AddMemoryRaises

Spec == Init /\ [][Next]_vars

(***************************************************************************)
(* Definitions shared by the properties below.                             *)
(***************************************************************************)
\* the connector's array in the file, as written there (empty if absent)
FileArray ==
    Get(file.data, IF connector = "calendar" THEN "events" ELSE "extractions", <<>>)

\* number of records _iter_limited lets through
Iterated ==
    IF cfg.limit = Unset \/ Len(FileArray) < Val(cfg.limit)
    THEN Len(FileArray) ELSE Val(cfg.limit)

\* the list the get_memories call returned (empty before it, and if it raised)
FetchedList == IF fetched = Unset THEN <<>> ELSE Val(fetched)

\* the get_memories call of this run raised
FetchRaised == Len(get_log) = 1 /\ fetched = Unset /\ pc # "fetch"

\* the add_memory calls that returned, in order
ReturnedAdds == SelectSeq(add_log, LAMBDA a : a.returned)

\* a completion content that is missing, empty or only whitespace
IsBlank(r) == IF r = None THEN TRUE ELSE \A i \in 1..Len(r) : IsSpace(Char(r, i))

(***************************************************************************)
(* Properties.                                                             *)
(***************************************************************************)
\* C1: with dry_run = True, ingest_file issues no add_memory call, keeps
\* stored at 0 and leaves the service untouched; when it returns, stored is 0
\* and processed is the number of records iterated (all records of the file
\* when limit is None), whether or not records were skipped for empty text.
C1_DryRunStoresNothing ==
    cfg.dry_run =>
        /\ add_log = <<>>
        /\ mem0 \in {<<>>, SeedMemories}
        /\ stored = 0
        /\ pc # "store"
        /\ pc = "returned" =>
              /\ result = Some(<<Iterated, 0>>)
              /\ cfg.limit = Unset => Val(result)[1] = Len(FileArray)
              /\ skipped + logged = Iterated

C1_Witness ==
    /\ cfg.dry_run /\ pc = "returned"
    /\ Len(FileArray) = 2 /\ processed = 2 /\ skipped = 1 /\ logged = 1

\* C2: with limit = L >= 0 over a file of N records ingest_file returns
\* processed = min(L, N), and never selects context for, enriches or stores a
\* record after the L-th; with limit None it returns processed = N.
C2_LimitTruncates ==
    /\ cfg.limit # Unset =>
          /\ processed <= Val(cfg.limit) /\ idx <= Val(cfg.limit)
          /\ enrich_calls <= Val(cfg.limit) /\ Len(add_log) <= Val(cfg.limit)
          /\ \A j \in 1..Len(add_log) : add_log[j].record <= Val(cfg.limit)
          /\ pc = "returned" =>
                Val(result)[1] = (IF Val(cfg.limit) < Len(FileArray)
                                  THEN Val(cfg.limit) ELSE Len(FileArray))
    /\ cfg.limit = Unset /\ pc = "returned" => Val(result)[1] = Len(FileArray)

C2_Witness ==
    /\ pc = "returned" /\ cfg.limit = Some(1) /\ Len(FileArray) = 2
    /\ result = Some(<<1, 1>>)

\* C3: with enrichment and dry_run off (and no limit below 1), the calendar
\* file holding the single Dentist event makes ingest_file issue exactly one
\* add_memory call, with text "Dentist" and metadata {connector: calendar,
\* source: file name, record_id: event-0, timestamp: 2025-03-01T09:00:00+00:00},
\* and return (1, 1) once that call returns.
DentistScenario ==
    /\ connector = "calendar" /\ file.ok /\ file.data = [events |-> <<EvDentist>>]
    /\ ~cfg.enrich /\ ~cfg.dry_run /\ cfg.limit # Some(0)

C3_DentistEndToEnd ==
    DentistScenario =>
        /\ Len(add_log) <= 1
        /\ \A j \in 1..Len(add_log) :
              /\ add_log[j].call.text = "Dentist"
              /\ add_log[j].call.metadata =
                    [connector |-> "calendar", source |-> path, record_id |-> "event-0",
                     timestamp |-> "2025-03-01T09:00:00+00:00"]
        /\ pc = "returned" => result = Some(<<1, 1>>) /\ Len(add_log) = 1
        /\ pc = "raised" => error = "add"

C3_Witness == DentistScenario /\ pc = "returned" /\ stored = 1

\* C4: within one ingest_file call get_memories is called at most once: at
\* the first record, before its context is selected, and not again for later
\* records whether the call returned a list, returned an empty list or
\* raised; it is not called when no record is iterated.
C4_FetchOncePerFile ==
    /\ Len(get_log) <= 1
    /\ processed = 0 => get_log = <<>>
    /\ pc = "fetch" => processed = 1 /\ get_log = <<>>
    /\ processed >= 1 /\ pc # "fetch" => Len(get_log) = 1

C4_Witness ==
    /\ pc = "returned" /\ processed = 2 /\ Len(get_log) = 1
    /\ fetched = Some(<<>>)

\* C5: the reference memories of every record are texts of the one list
\* fetched at the first record; the cached list stays that list while
\* add_memory stores new texts, so no record's context holds an earlier
\* record's output unless that text was in the fetched list.
C5_ContextFromFirstFetch ==
    /\ memories_cache # Unset => Val(memories_cache) = FetchedList
    /\ \A i \in 1..Len(prior_mems) :
          \E k \in 1..Len(FetchedList) : prior_mems[i] = MemText(FetchedList[k])
    /\ \A j \in 1..Len(ReturnedAdds) :
          (\E i \in 1..Len(prior_mems) : prior_mems[i] = ReturnedAdds[j].call.text)
              => \E k \in 1..Len(FetchedList) :
                    MemText(FetchedList[k]) = ReturnedAdds[j].call.text

\* the second record's context was selected after the first record's output,
\* which shares a token with the second record, was stored
C5_Witness ==
    /\ pc = "store" /\ processed = 2 /\ Len(ReturnedAdds) = 1
    /\ Score(record, [memory |-> ReturnedAdds[1].call.text]) > 0
    /\ \A i \in 1..Len(prior_mems) : prior_mems[i] # ReturnedAdds[1].call.text

\* C6: when get_memories raises, the exception does not leave ingest_file:
\* the memory list is empty for every record, the records are still
\* processed, only an enrichment or add_memory failure can stop the file, and
\* on return processed is the number of records iterated.
C6_FetchFailureSwallowed ==
    /\ get_log # <<>> /\ fetched = Unset => pc # "fetch"
    /\ FetchRaised =>
          /\ memories_cache = Some(<<>>)
          /\ prior_mems = <<>>
          /\ pc = "raised" => error \in {"enrich", "add"}
          /\ pc = "returned" =>
                /\ result = Some(<<Iterated, Len(ReturnedAdds)>>)
                /\ Iterated = skipped + logged + stored

C6_Witness ==
    /\ FetchRaised /\ pc = "returned" /\ mem0 # <<>>
    /\ result = Some(<<2, 2>>)

\* C7: when the enrichment call or add_memory raises at record k, the
\* exception leaves ingest_file: no pair is returned, no record after k is
\* loaded, enriched or stored, the failing call was made once, and every
\* add_memory call that returned before stays in the service.
C7_FailureAbortsFile ==
    /\ error \in {"enrich", "add"} =>
          /\ pc = "raised"
          /\ result = Unset
          /\ loaded = processed /\ idx = processed
          /\ enrich_calls <= processed /\ Len(add_log) <= processed
          /\ \A j \in 1..Len(add_log) : add_log[j].record <= processed
          /\ error = "add" => ~add_log[Len(add_log)].returned
                              /\ add_log[Len(add_log)].record = processed
          /\ Len(ReturnedAdds) = stored
          /\ Len(mem0) >= stored
          /\ \A j \in 1..stored :
                /\ mem0[Len(mem0) - stored + j].memory = ReturnedAdds[j].call.text
                /\ mem0[Len(mem0) - stored + j].user_id = ReturnedAdds[j].call.user_id
    /\ pc = "raised" => error # "none" /\ result = Unset

C7_Witness ==
    /\ pc = "raised" /\ error = "enrich" /\ processed = 2 /\ stored = 1
    /\ Len(FileArray) = 2

\* C8: with enrichment enabled, a completion that is missing, empty or only
\* whitespace makes the record a skip: it is counted in processed, no
\* add_memory call is made for it, nothing is entered in the occurrence
\* counter, nothing is raised and the loop goes on to the next record.
C8_BlankCompletionSkips ==
    (cfg.enrich /\ text # None /\ IsBlank(resp)) =>
        /\ outcome = "skip"
        /\ text = ""
        /\ pc \in {"iter", "returned"}
        /\ error = "none"
        /\ processed = idx /\ skipped >= 1
        /\ "" \notin DOMAIN occurrence_counts
        /\ "occurrence_count" \notin DOMAIN metadata
        /\ \A j \in 1..Len(add_log) : add_log[j].record # idx
        /\ Len(add_log) + skipped + logged = processed

C8_Witness ==
    /\ cfg.enrich /\ pc = "iter" /\ outcome = "skip" /\ resp = " \n"
    /\ processed = 1 /\ HasNext

\* C9: the user_id of the get_memories call and of every add_memory call is
\* config.user_id when that is non-empty, else the loader's metadata user_id
\* when that is non-empty, else "demo_user"; it is never empty, and it is
\* "demo_user" under the default configuration whatever the file is called.
UsedUserIds == Range(get_log) \cup {add_log[j].call.user_id : j \in 1..Len(add_log)}

C9_UserIdPrecedence ==
    \A u \in UsedUserIds :
        /\ u # "" /\ u # None
        /\ cfg.user_id = "demo_user" => u = "demo_user"
        /\ \A i \in 1..Len(items) :
              u = (IF cfg.user_id # "" THEN cfg.user_id
                   ELSE IF items[i].metadata.user_id \notin {"", None}
                        THEN items[i].metadata.user_id
                        ELSE "demo_user")

C9_Witness ==
    /\ cfg.user_id = "" /\ path = "cal.v2.json"
    /\ get_log = <<"cal.v2">> /\ Len(add_log) = 2
    /\ add_log[2].call.user_id = "cal.v2"

\* C10: the metadata of every add_memory call has exactly the keys connector,
\* source, record_id and timestamp; connector is the connector argument and
\* the other three are those of the record's loader metadata.
C10_PersistedMetadataKeys ==
    \A j \in 1..Len(add_log) :
        LET md == add_log[j].call.metadata
            loader_md == items[add_log[j].record].metadata
        IN  /\ DOMAIN md = {"connector", "source", "record_id", "timestamp"}
            /\ md.connector = connector
            /\ md.source = loader_md.source
            /\ md.record_id = loader_md.record_id
            /\ md.timestamp = loader_md.timestamp

C10_Witness ==
    /\ connector = "calendar" /\ Len(add_log) = 1 /\ pc = "iter"
    /\ {"start_utc", "end_utc", "user_id", "occurrence_count"} \subseteq DOMAIN metadata
    /\ add_log[1].call.metadata.timestamp = "2023-12-31T23:00:00+00:00"
\* C11: every add_memory call of ingest_file, with enrichment on or off,
\* gives the derived text (non-empty, as derived for the record) through the
\* text parameter with infer = False, and MemoryManager hands that text and
\* infer = False to the client.
C11_StoredVerbatim ==
    \A j \in 1..Len(add_log) :
        /\ add_log[j].call.infer = FALSE
        /\ "messages" \notin DOMAIN add_log[j].call
        /\ add_log[j].call.text # "" /\ add_log[j].call.text # None
        /\ ~cfg.enrich =>
              add_log[j].call.text \in
                  {Strip(v) : v \in Range(items[add_log[j].record].record) \ {None}}
                      \cup {JsonDumps(items[add_log[j].record].record, RecordKeys(connector))}
        /\ cfg.enrich => add_log[j].call.text \in {Strip(c) : c \in Completions \ {None}}
        /\ Len(add_log[j].client) = 1
        /\ add_log[j].client[1].text = add_log[j].call.text
        /\ add_log[j].client[1].infer = FALSE

C11_Witness ==
    /\ cfg.enrich /\ pc = "returned" /\ Len(add_log) = 2
    /\ add_log[1].call.text = "Lunch with Sam."
    /\ add_log[2].client[1].infer = FALSE

(***************************************************************************)
(* MemoryManager.add_memory called on its own.                             *)
(***************************************************************************)
\* no ingest_file call is running
NoCall ==
    /\ connector = "calendar" /\ path = "bob.json"
    /\ file = [ok |-> FALSE, data |-> EmptyDict]
    /\ cfg = [dry_run |-> FALSE, enrich |-> TRUE, limit |-> Unset, user_id |-> DefaultUserId]
    /\ mem0 = <<>>
    /\ pc = "unit"
    /\ FreshCall
    /\ NoPaths
    /\ NoChat

SampleMessage == [role |-> "user", content |-> "I am vegetarian."]

AddMemoryArgs ==
    [user_id : {"", "alice"},
     text : {None, "", "I love pizza"},
     messages : {Unset, Some(<<>>), Some(<<SampleMessage>>)},
     metadata : {EmptyDict, [type |-> "vision"]},
     infer : BOOLEAN]

InitAddMemory == NoCall /\ h_in \in AddMemoryArgs /\ h_out = Unset

CallAddMemory ==
    /\ pc = "unit" /\ h_out = Unset
    /\ h_out' = Some(add_memory(h_in.user_id, h_in.text, h_in.messages, h_in.metadata, h_in.infer))
    /\ pc' = "unit_done"
    /\ UNCHANGED <<agent, events, outer, h_in, inputs, mem0, items, idx, record, metadata, user_id, processed,
                   stored, occurrence_counts, memories_cache, prior_mems, text, loaded,
                   get_log, fetched, enrich_calls, resp, add_log, outcome, skipped, logged,
                   result, error>>

SpecAddMemory == InitAddMemory /\ [][CallAddMemory]_vars

\* C20: add_memory raises ValueError without calling the client when user_id
\* is empty, when text and messages are both given, or when neither is given
\* (None or empty); otherwise it makes exactly one client add call, with the
\* text and infer when text is used and with the messages and no infer
\* otherwise.
C20_AddMemoryValidation ==
    h_out # Unset =>
        LET r == Val(h_out)
            hasText == h_in.text \notin {None, ""}
            hasMessages == h_in.messages \notin {Unset, Some(<<>>)}
        IN  IF h_in.user_id = "" \/ (hasText /\ hasMessages) \/ (~hasText /\ ~hasMessages)
            THEN r.raises /\ r.client = <<>>
            ELSE /\ ~r.raises
                 /\ Len(r.client) = 1
                 /\ r.client[1].user_id = h_in.user_id
                 /\ r.client[1].metadata = h_in.metadata
                 /\ hasText =>
                       /\ DOMAIN r.client[1] = {"text", "user_id", "metadata", "infer"}
                       /\ r.client[1].text = h_in.text
                       /\ r.client[1].infer = h_in.infer
                 /\ hasMessages =>
                       /\ DOMAIN r.client[1] = {"messages", "user_id", "metadata"}
                       /\ r.client[1].messages = Val(h_in.messages)

\* both text and messages given, for a non-empty user_id
C20_Witness ==
    /\ h_out # Unset /\ h_in.user_id = "alice"
    /\ h_in.text = "I love pizza" /\ h_in.messages = Some(<<SampleMessage>>)
    /\ Val(h_out).raises

(***************************************************************************)
(* ingest_paths (pipeline.py): one ingest_file call per path, in order.    *)
(***************************************************************************)
MaxPaths == 2        \* longest list of paths

PathList == <<"bob.json", "cal.v2.json", "bob.json", "x.json">>

\* the files a path of the list may hold: unreadable, without the array,
\* with one record, with two records
PathFiles(c) ==
    LET one == CHOOSE e \in SourceItems(c) : e \in {EvDentist, ExNote, ExVoice}
        other == CHOOSE e \in SourceItems(c) : e # one
        key == IF c = "calendar" THEN "events" ELSE "extractions"
    IN  {[ok |-> FALSE, data |-> EmptyDict],
         [ok |-> TRUE, data |-> [version |-> "1"]],
         [ok |-> TRUE, data |-> (key :> <<one>>)],
         [ok |-> TRUE, data |-> (key :> <<other, one>>)]}

PathsConfigs ==
    [dry_run : BOOLEAN, enrich : BOOLEAN, limit : {Unset, Some(1)},
     user_id : {"", DefaultUserId}]

InitPaths ==
    /\ connector = "calendar"
    /\ cfg \in PathsConfigs
    /\ mem0 = SeedMemories
    /\ \E n \in 0..MaxPaths :
          paths \in {ps \in [1..n -> [name : Range(PathList), file : PathFiles(connector)]] :
                        \A i \in 1..n : ps[i].name = PathList[i]}
    /\ p = 0 /\ total_processed = 0 /\ total_stored = 0
    /\ totals = Unset /\ history = <<>>
    /\ path = None /\ file = [ok |-> FALSE, data |-> EmptyDict]
    /\ pc = "paths"
    /\ FreshCall
    /\ NoUnit
    /\ NoChat

\* mutant of StartPath: the occurrence counter outlives the call
StartPath_KeepsCounts ==
    /\ pc = "paths"
    /\ p < Len(paths)
    /\ p' = p + 1
    /\ path' = paths[p + 1].name
    /\ file' = paths[p + 1].file
    /\ pc' = "start"
    /\ items' = <<>> /\ idx' = 0
    /\ record' = EmptyDict /\ metadata' = EmptyDict /\ user_id' = None
    /\ processed' = 0 /\ stored' = 0
    /\ occurrence_counts' = occurrence_counts
    /\ memories_cache' = Unset
    /\ prior_mems' = <<>> /\ text' = None
    /\ loaded' = 0 /\ get_log' = <<>> /\ fetched' = Unset /\ enrich_calls' = 0
    /\ resp' = None /\ add_log' = <<>> /\ outcome' = "none"
    /\ skipped' = 0 /\ logged' = 0 /\ result' = Unset /\ error' = "none"
    /\ events' = <<>>
    /\ UNCHANGED <<agent, unit, connector, cfg, mem0, paths, total_processed, total_stored, totals,
                   history>>

\* mutant of StartPath: the cached memory list outlives the call
StartPath_KeepsCache ==
    /\ pc = "paths"
    /\ p < Len(paths)
    /\ p' = p + 1
    /\ path' = paths[p + 1].name
    /\ file' = paths[p + 1].file
    /\ pc' = "start"
    /\ items' = <<>> /\ idx' = 0
    /\ record' = EmptyDict /\ metadata' = EmptyDict /\ user_id' = None
    /\ processed' = 0 /\ stored' = 0
    /\ occurrence_counts' = EmptyDict
    /\ memories_cache' = memories_cache
    /\ prior_mems' = <<>> /\ text' = None
    /\ loaded' = 0 /\ get_log' = <<>> /\ fetched' = Unset /\ enrich_calls' = 0
    /\ resp' = None /\ add_log' = <<>> /\ outcome' = "none"
    /\ skipped' = 0 /\ logged' = 0 /\ result' = Unset /\ error' = "none"
    /\ events' = <<>>
    /\ UNCHANGED <<agent, unit, connector, cfg, mem0, paths, total_processed, total_stored, totals,
                   history>>

\* for p in paths: ingest_file(connector, p, mem, cfg) is called
StartPath ==
    /\ pc = "paths"
    /\ p < Len(paths)
    /\ p' = p + 1
    /\ path' = paths[p + 1].name
    /\ file' = paths[p + 1].file
    /\ pc' = "start"
    /\ items' = <<>> /\ idx' = 0
    /\ record' = EmptyDict /\ metadata' = EmptyDict /\ user_id' = None
    /\ processed' = 0 /\ stored' = 0
    /\ occurrence_counts' = EmptyDict
    /\ memories_cache' = Unset
    /\ prior_mems' = <<>> /\ text' = None
    /\ loaded' = 0 /\ get_log' = <<>> /\ fetched' = Unset /\ enrich_calls' = 0
    /\ resp' = None /\ add_log' = <<>> /\ outcome' = "none"
    /\ skipped' = 0 /\ logged' = 0 /\ result' = Unset /\ error' = "none"
    /\ events' = <<>>
    /\ UNCHANGED <<agent, unit, connector, cfg, mem0, paths, total_processed, total_stored, totals,
                   history>>

\* mutant of FinishPath: the totals are assigned, not added to
FinishPath_Overwrites ==
    /\ pc = "returned"
    /\ p > 0
    /\ total_processed' = Val(result)[1]
    /\ total_stored' = Val(result)[2]
    /\ history' = Append(history, [name |-> path, result |-> Val(result), get_log |-> get_log,
                                   fetched |-> fetched, add_log |-> add_log])
    /\ pc' = "paths"
    /\ UNCHANGED <<agent, events, unit, inputs, mem0, paths, p, totals, items, idx, record, metadata, user_id,
                   processed, stored, occurrence_counts, memories_cache, prior_mems, text,
                   loaded, get_log, fetched, enrich_calls, resp, add_log, outcome, skipped,
                   logged, result, error>>

\* proc, st = ingest_file(...) returned: the totals are updated
FinishPath ==
    /\ pc = "returned"
    /\ p > 0
    /\ total_processed' = total_processed + Val(result)[1]
    /\ total_stored' = total_stored + Val(result)[2]
    /\ history' = Append(history, [name |-> path, result |-> Val(result), get_log |-> get_log,
                                   fetched |-> fetched, add_log |-> add_log])
    /\ pc' = "paths"
    /\ UNCHANGED <<agent, events, unit, inputs, mem0, paths, p, totals, items, idx, record, metadata, user_id,
                   processed, stored, occurrence_counts, memories_cache, prior_mems, text,
                   loaded, get_log, fetched, enrich_calls, resp, add_log, outcome, skipped,
                   logged, result, error>>

\* the list is exhausted: return total_processed, total_stored
ReturnTotals ==
    /\ pc = "paths"
    /\ p = Len(paths)
    /\ totals' = Some(<<total_processed, total_stored>>)
    /\ pc' = "done"
    /\ UNCHANGED <<agent, events, unit, inputs, mem0, paths, p, total_processed, total_stored, history, items,
                   idx, record, metadata, user_id, processed, stored, occurrence_counts,
                   memories_cache, prior_mems, text, loaded, get_log, fetched, enrich_calls,
                   resp, add_log, outcome, skipped, logged, result, error>>

NextPaths ==
    \/ StartPath
    \/ FinishPath
    \/ ReturnTotals
    \/ OpenFile
    \/ OpenFileRaises
    \/ NextRecord
    \/ Return
    \/ FetchMemories
    \/ FetchMemoriesRaises
    \/ EnrichRecord
    \/ EnrichRaises
    \/ RawRecord
    \/ AddMemory
    \/ AddMemoryRaises

SpecPaths == InitPaths /\ [][NextPaths]_vars

(***************************************************************************)
(* Properties of ingest_paths                                              *)
(***************************************************************************)
\* the ingest_file call of the current path is under way
InCall == pc \notin {"paths", "done"}

RECURSIVE SumResults(_, _)
SumResults(h, k) == IF h = <<>> THEN 0 ELSE Head(h).result[k] + SumResults(Tail(h), k)

FileArrayOf(f) ==
    Get(f.data, IF connector = "calendar" THEN "events" ELSE "extractions", <<>>)

\* number of records _iter_limited lets through for the file f
IteratedOf(f) ==
    LET arr == FileArrayOf(f)
    IN  IF cfg.limit = Unset \/ Len(arr) < Val(cfg.limit) THEN Len(arr) ELSE Val(cfg.limit)

\* C12: ingest_paths makes one complete ingest_file call per path, in the
\* order of the list; the returned totals are the sums of the per-file
\* (processed, stored) pairs; every call starts with processed = stored = 0,
\* empty occurrence counts and an empty memory cache, so the per-file result
\* depends on that file alone.
C12_PathsInOrderTotalsSummed ==
    /\ p \in 0..Len(paths)
    /\ Len(history) = IF InCall THEN p - 1 ELSE p
    /\ \A i \in 1..Len(history) :
          /\ history[i].name = paths[i].name
          /\ history[i].result[1] = IteratedOf(paths[i].file)
          /\ history[i].result[2] = Cardinality({j \in 1..Len(history[i].add_log) :
                                                     history[i].add_log[j].returned})
    /\ InCall => path = paths[p].name /\ file = paths[p].file
    /\ total_processed = SumResults(history, 1)
    /\ total_stored = SumResults(history, 2)
    /\ pc = "start" =>
          /\ processed = 0 /\ stored = 0 /\ idx = 0
          /\ occurrence_counts = EmptyDict
          /\ memories_cache = Unset
          /\ get_log = <<>> /\ add_log = <<>>
    /\ pc = "done" <=> totals # Unset
    /\ pc = "done" =>
          /\ p = Len(paths)
          /\ totals = Some(<<SumResults(history, 1), SumResults(history, 2)>>)

C12_Witness ==
    /\ pc = "done"
    /\ Len(paths) = 2
    /\ history[1].result = <<2, 2>>
    /\ history[2].result = <<1, 1>>
    /\ totals = Some(<<3, 3>>)

\* C19: a file that cannot be read or parsed makes ingest_file raise before
\* any record is processed, with no get_memories, grok_enrich or add_memory
\* call for it; the exception ends ingest_paths, so no later path is
\* ingested and no totals are returned.
C19_UnreadableFileStopsRun ==
    /\ (InCall /\ pc # "start" /\ ~file.ok) =>
          /\ pc = "raised" /\ error = "read"
          /\ items = <<>> /\ loaded = 0 /\ processed = 0 /\ stored = 0
          /\ get_log = <<>> /\ enrich_calls = 0 /\ add_log = <<>>
          /\ result = Unset
    /\ error = "read" => ~file.ok
    /\ \A i \in 1..(p - 1) : paths[i].file.ok
    /\ pc = "raised" => totals = Unset /\ Len(history) = p - 1
    /\ pc = "done" => \A i \in 1..Len(paths) : paths[i].file.ok

C19_Witness ==
    /\ pc = "raised" /\ error = "read"
    /\ mem0 = SeedMemories
    /\ p = 1 /\ Len(paths) = 2
    /\ Len(FileArrayOf(paths[2].file)) = 2
    /\ history = <<>>

(***************************************************************************)
(* Properties of the loaders inside ingest_file                            *)
(***************************************************************************)
ArrayKey == IF connector = "calendar" THEN "events" ELSE "extractions"

\* C18: when the parsed document has no "events" (calendar) or "extractions"
\* (vision, audio) entry, the loader yields the empty sequence and does not
\* raise, and ingest_file returns (0, 0) without any get_memories,
\* grok_enrich or add_memory call.
C18_MissingArrayIsEmpty ==
    (file.ok /\ ArrayKey \notin DOMAIN file.data) =>
        /\ Loader(connector, path, file.data) = <<>>
        /\ pc \in {"start", "iter", "returned"}
        /\ error = "none"
        /\ pc # "start" => items = <<>>
        /\ loaded = 0 /\ processed = 0 /\ stored = 0
        /\ get_log = <<>> /\ enrich_calls = 0 /\ add_log = <<>>
        /\ mem0 \in {<<>>, SeedMemories}
        /\ pc = "returned" => result = Some(<<0, 0>>)

C18_Witness ==
    /\ connector = "calendar"
    /\ file = [ok |-> TRUE, data |-> [version |-> "1"]]
    /\ cfg.enrich /\ ~cfg.dry_run
    /\ pc = "returned"
    /\ result = Some(<<0, 0>>)
    /\ get_log = <<>> /\ add_log = <<>>

(***************************************************************************)
(* The loaders as functions of the parsed document.                        *)
(***************************************************************************)
IdKey(c) == IF c = "calendar" THEN "event_id" ELSE "filename"

ArrayKeyOf(c) == IF c = "calendar" THEN "events" ELSE "extractions"

\* source items with an identifier, with a null identifier, without one
LoaderItems(c) ==
    {(IdKey(c) :> "id-7") @@ [summary |-> "Lunch", date |-> "2025-01-05"],
     (IdKey(c) :> None) @@ [summary |-> "Walk"],
     [summary |-> "Dentist", date |-> "2025-03-01"]}

InitLoader ==
    /\ NoCall
    /\ \E c \in Connectors, n \in PathNames :
         \E its \in SeqsUpTo(LoaderItems(c), MaxRecords) :
            h_in = [connector |-> c, name |-> n, data |-> (ArrayKeyOf(c) :> its)]
    /\ h_out = Unset

\* list(loader(path)) for a readable file
CallLoader ==
    /\ pc = "unit"
    /\ h_out = Unset
    /\ h_out' = Some(Loader(h_in.connector, h_in.name, h_in.data))
    /\ pc' = "unit_done"
    /\ UNCHANGED <<agent, events, outer, h_in, inputs, mem0, items, idx, record, metadata, user_id, processed,
                   stored, occurrence_counts, memories_cache, prior_mems, text, loaded,
                   get_log, fetched, enrich_calls, resp, add_log, outcome, skipped, logged,
                   result, error>>

SpecLoader == InitLoader /\ [][CallLoader]_vars

SourceOf(i) == h_in.data[ArrayKeyOf(h_in.connector)][i]

SynthPrefix(c) == IF c = "calendar" THEN "event" ELSE c

\* C17 as stated: without an identifier of its own the item gets the
\* record_id "{connector}-{index}", the connector's name and the zero-based
\* index; with one, that identifier.
C17_SynthesizedFromConnectorName ==
    h_out # Unset =>
        \A i \in 1..Len(Val(h_out)) :
            Val(h_out)[i].metadata.record_id =
                IF IdKey(h_in.connector) \in DOMAIN SourceOf(i)
                THEN SourceOf(i)[IdKey(h_in.connector)]
                ELSE h_in.connector \o "-" \o IntStr(i - 1)

\* C17 amended: an item without an event_id (calendar) or filename (vision,
\* audio) key gets the record_id "event-{index}", "vision-{index}" or
\* "audio-{index}" with its zero-based index; an item that has the key gets
\* the key's value, whatever it is.
C17_SynthesizedRecordId ==
    h_out # Unset =>
        /\ Len(Val(h_out)) = Len(h_in.data[ArrayKeyOf(h_in.connector)])
        /\ \A i \in 1..Len(Val(h_out)) :
              Val(h_out)[i].metadata.record_id =
                  IF IdKey(h_in.connector) \in DOMAIN SourceOf(i)
                  THEN SourceOf(i)[IdKey(h_in.connector)]
                  ELSE SynthPrefix(h_in.connector) \o "-" \o IntStr(i - 1)

C17_Witness ==
    /\ h_out # Unset
    /\ h_in.connector = "calendar"
    /\ Len(Val(h_out)) = 2
    /\ Val(h_out)[1].metadata.record_id = "id-7"
    /\ "event_id" \notin DOMAIN SourceOf(2)
    /\ Val(h_out)[2].metadata.record_id = "event-1"

(***************************************************************************)
(* _to_utc (connectors/calendar.py) as a function of the start/end string. *)
(***************************************************************************)
SampleDates == {"0001-01-01", "2023-12-31", "2024-01-01", "2024-02-29", "2024-03-01",
                "9999-12-31"}

SampleTimes == {"00:30:00", "10:00:00", "23:45:00"}

SampleZones == {"", "Z", "+02:00", "-05:00", "+05:30"}

\* strings fromisoformat rejects, and a bare date
OddStrings == {"", "garbage", "next week", "2024-13-01T10:00:00+02:00",
               "2024-02-30T10:00:00Z", "2024-01-01T25:00:00+02:00", "2024-01-01"}

DateTimeStrings ==
    {d \o "T" \o t \o z : d \in SampleDates, t \in SampleTimes, z \in SampleZones}
        \cup OddStrings

InitToUtc ==
    /\ NoCall
    /\ h_in \in DateTimeStrings
    /\ h_out = Unset

CallToUtc ==
    /\ pc = "unit"
    /\ h_out = Unset
    /\ h_out' = Some(ToUtc(h_in))
    /\ pc' = "unit_done"
    /\ UNCHANGED <<agent, events, outer, h_in, inputs, mem0, items, idx, record, metadata, user_id, processed,
                   stored, occurrence_counts, memories_cache, prior_mems, text, loaded,
                   get_log, fetched, enrich_calls, resp, add_log, outcome, skipped, logged,
                   result, error>>

SpecToUtc == InitToUtc /\ [][CallToUtc]_vars

\* days before the first of the month in a common year
DaysBeforeMonth == <<0, 31, 59, 90, 120, 151, 181, 212, 243, 273, 304, 334>>

\* the instant dt denotes: <<days since 0001-01-01, minute of that day>> in UTC
Instant(dt) ==
    LET y == dt.y - 1
        days == 365 * y + (y \div 4) - (y \div 100) + (y \div 400)
                + DaysBeforeMonth[dt.mo]
                + (IF dt.mo > 2 /\ IsLeap(dt.y) THEN 1 ELSE 0)
                + (dt.d - 1)
        m == 60 * dt.h + dt.mi - dt.off
    IN  <<days + (m \div 1440), m % 1440>>

\* C16: _to_utc does not raise; a string that parses with a timezone offset
\* comes back as the same instant written with offset +00:00
\* ("2024-01-01T10:00:00+02:00" gives "2024-01-01T08:00:00+00:00"), and a
\* string that does not parse comes back unchanged.
C16_SameInstantInUtc ==
    h_out # Unset =>
        LET dt == FromIsoFormat(h_in)
            out == Val(h_out)
        IN  /\ (dt.ok /\ dt.aware) =>
                  /\ Len(out) = 25
                  /\ SubSeq(out, 20, 25) = "+00:00"
                  /\ FromIsoFormat(out).ok
                  /\ Instant(FromIsoFormat(out)) = Instant(dt)
                  /\ FromIsoFormat(out).s = dt.s
            /\ ~dt.ok => out = h_in

(***************************************************************************)
(* _select_context_mems (pipeline.py) as a function of record, memory list *)
(* and max_items.                                                          *)
(***************************************************************************)
MaxMems == 3       \* longest memory list
MaxSelect == 3     \* largest max_items

SelectRecords ==
    {[text |-> "Lunch with Sam, at noon.", summary |-> "Dentist"],
     [transcription |-> "Sam likes sushi"],
     [summary |-> "", text |-> None],
     [location |-> "Sam lunch"]}

SelectMemories ==
    {[memory |-> "Sam had lunch."],
     [text |-> "Dentist at noon with Sam"],
     [memory |-> "", text |-> "Lunch, Sam"],
     [memory |-> "unrelated note"]}

InitSelect ==
    /\ NoCall
    /\ h_in \in [record : SelectRecords,
                 memories : SeqsUpTo(SelectMemories, MaxMems),
                 max_items : 0..MaxSelect]
    /\ h_out = Unset

CallSelect ==
    /\ pc = "unit"
    /\ h_out = Unset
    /\ h_out' = Some(_select_context_mems(h_in.record, h_in.memories, h_in.max_items))
    /\ pc' = "unit_done"
    /\ UNCHANGED <<agent, events, outer, h_in, inputs, mem0, items, idx, record, metadata, user_id, processed,
                   stored, occurrence_counts, memories_cache, prior_mems, text, loaded,
                   get_log, fetched, enrich_calls, resp, add_log, outcome, skipped, logged,
                   result, error>>

SpecSelect == InitSelect /\ [][CallSelect]_vars

\* the words of s of three or more characters, lower-cased, with "," and "."
\* counting as blanks
Words(s) ==
    IF ~IsStr(s) THEN {}
    ELSE LET l == Lower(s)
             Sep(i) == i = 0 \/ i = Len(l) + 1 \/ IsSpace(Char(l, i)) \/ Char(l, i) \in {",", "."}
             starts == {a \in 1..Len(l) : Sep(a - 1) /\ ~Sep(a)}
             ends == {b \in 1..Len(l) : ~Sep(b) /\ Sep(b + 1)}
             EndOf(a) == CHOOSE b \in ends : b >= a /\ \A e \in ends : e >= a => b <= e
         IN  {SubSeq(l, a, EndOf(a)) : a \in {x \in starts : EndOf(x) >= x + 2}}

RecordWords(rec) == UNION {Words(Get(rec, k, None)) : k \in Range(ContextKeys)}

Overlap(rec, m) == Cardinality(RecordWords(rec) \cap Words(MemText(m)))

FieldEmpty(rec, k) == k \notin DOMAIN rec \/ rec[k] = None \/ rec[k] = ""

\* C13: for every record, memory list and max_items >= 0 the selector
\* returns at most max_items texts, each the text of a memory of the list
\* that shares at least one token with the record; when transcription,
\* description, text and summary are all empty or absent it returns [].
C13_SelectionBoundedAndOverlapping ==
    h_out # Unset =>
        LET out == Val(h_out)
        IN  /\ Len(out) <= h_in.max_items
            /\ \A i \in 1..Len(out) :
                  \E k \in 1..Len(h_in.memories) :
                      /\ out[i] = MemText(h_in.memories[k])
                      /\ Overlap(h_in.record, h_in.memories[k]) >= 1
            /\ (\A k \in Range(ContextKeys) : FieldEmpty(h_in.record, k)) => out = <<>>

C13_Witness ==
    /\ h_out # Unset
    /\ h_in.max_items = 2
    /\ Len(h_in.memories) = 3
    /\ \A k \in 1..3 : Overlap(h_in.record, h_in.memories[k]) >= 1
    /\ Len(Val(h_out)) = 2

Smaller(a, b) == IF a < b THEN a ELSE b

\* C14: the selector returns the matching memory texts by non-increasing
\* overlap score, memories of equal score in their order in the input list,
\* and never returns a memory of strictly lower score while one of higher
\* score is left out.
C14_SelectionOrdered ==
    h_out # Unset =>
        LET out == Val(h_out)
            sc == [k \in 1..Len(h_in.memories) |-> Overlap(h_in.record, h_in.memories[k])]
            matching == {k \in DOMAIN sc : sc[k] >= 1}
        IN  /\ Len(out) = Smaller(h_in.max_items, Cardinality(matching))
            /\ \E pick \in [1..Len(out) -> matching] :
                  /\ \A i \in 1..Len(out) : out[i] = MemText(h_in.memories[pick[i]])
                  /\ \A i, j \in 1..Len(out) :
                        i < j => \/ sc[pick[i]] > sc[pick[j]]
                                 \/ sc[pick[i]] = sc[pick[j]] /\ pick[i] < pick[j]
                  /\ \A k \in matching :
                        (\A i \in 1..Len(out) : pick[i] # k) =>
                            \A i \in 1..Len(out) : sc[k] <= sc[pick[i]]

C14_Witness ==
    /\ h_out # Unset
    /\ h_in.record = [text |-> "Lunch with Sam, at noon.", summary |-> "Dentist"]
    /\ h_in.memories = <<[memory |-> "", text |-> "Lunch, Sam"], [text |-> "Dentist at noon with Sam"],
                         [memory |-> "Sam had lunch."]>>
    /\ h_in.max_items = 3
    /\ Val(h_out) = <<"Dentist at noon with Sam", "Lunch, Sam", "Sam had lunch.">>

(***************************************************************************)
(* _record_to_plain_text (pipeline.py) as a function of the record.        *)
(***************************************************************************)
FieldValues == {None, "", " \n", " buy milk ", "Dentist"}

PlainKeys == <<"location", "summary", "text", "description", "transcription", "date">>

PlainTextArgs ==
    {[rec |-> r, keys |-> PlainKeys] :
        r \in [location : {None, "Room 1"}, summary : FieldValues, text : FieldValues,
               description : FieldValues, transcription : FieldValues,
               date : {None, " 2025-01-05"}]}
        \cup {[rec |-> [summary |-> "", text |-> "buy milk"], keys |-> <<"summary", "text">>]}

InitPlainText ==
    /\ NoCall
    /\ h_in \in PlainTextArgs
    /\ h_out = Unset

CallPlainText ==
    /\ pc = "unit"
    /\ h_out = Unset
    /\ h_out' = Some(_record_to_plain_text(h_in.rec, h_in.keys))
    /\ pc' = "unit_done"
    /\ UNCHANGED <<agent, events, outer, h_in, inputs, mem0, items, idx, record, metadata, user_id, processed,
                   stored, occurrence_counts, memories_cache, prior_mems, text, loaded,
                   get_log, fetched, enrich_calls, resp, add_log, outcome, skipped, logged,
                   result, error>>

SpecPlainText == InitPlainText /\ [][CallPlainText]_vars

\* v is a string with a character that is not whitespace
HasContent(v) == IsStr(v) /\ \E i \in 1..Len(v) : ~IsSpace(Char(v, i))

\* v without its leading and trailing whitespace, for v with content
Trimmed(v) ==
    LET solid == {i \in 1..Len(v) : ~IsSpace(Char(v, i))}
        first == CHOOSE i \in solid : \A j \in solid : i <= j
        last == CHOOSE i \in solid : \A j \in solid : i >= j
    IN  SubSeq(v, first, last)

Priority == <<"transcription", "description", "text", "summary">>

\* C15: _record_to_plain_text returns the trimmed value of the first of
\* transcription, description, text, summary that is a string with
\* non-whitespace content, whatever the other fields hold; for
\* {summary: "", text: "buy milk"} it returns "buy milk".
C15_FallbackPriority ==
    h_out # Unset =>
        /\ \A k \in 1..Len(Priority) :
              (/\ HasContent(Get(h_in.rec, Priority[k], None))
               /\ \A j \in 1..(k - 1) : ~HasContent(Get(h_in.rec, Priority[j], None)))
                  => Val(h_out) = Trimmed(h_in.rec[Priority[k]])
        /\ h_in.rec = [summary |-> "", text |-> "buy milk"] => Val(h_out) = "buy milk"

C15_Witness ==
    /\ h_in.rec = [location |-> "Room 1", summary |-> "Dentist", text |-> " buy milk ",
                   description |-> " \n", transcription |-> None, date |-> None]
    /\ h_out = Some("buy milk")

(***************************************************************************)
(* Properties of the steps of one ingest_file call                         *)
(***************************************************************************)
\* the steps taken for record n, in order
StepsOf(n) ==
    LET mine == SelectSeq(events, LAMBDA e : e.rec = n)
    IN  [i \in 1..Len(mine) |-> mine[i].step]

DeriveSteps == {<<"select", "enrich">>, <<"select", "raw">>}

\* the step sequences of a record that reached its terminal outcome
Completed ==
    {d \o <<"skip">> : d \in DeriveSteps}
        \cup {d \o <<"count", t>> : d \in DeriveSteps, t \in {"dry_run", "add"}}

\* the step sequences of a record whose external call raised
Aborted == {<<"select", "enrich_raised">>} \cup {d \o <<"count", "add_raised">> : d \in DeriveSteps}

\* the step sequences of a record that is under way
Underway == {<<>>} \cup {d \o <<"count">> : d \in DeriveSteps}

CountSteps(n, S) == Cardinality({i \in 1..Len(events) : events[i].rec = n /\ events[i].step \in S})

C21_State ==
    /\ processed = idx
    /\ \A i, j \in 1..Len(events) : i < j => events[i].rec <= events[j].rec
    /\ \A i \in 1..Len(events) : events[i].rec \in 1..processed
    /\ \A n \in 1..processed :
          /\ CountSteps(n, {"enrich", "enrich_raised"}) <= 1
          /\ CountSteps(n, {"add", "add_raised"}) <= 1
          /\ CountSteps(n, {"skip", "dry_run", "add"}) <= 1
          /\ IF n < processed \/ pc \in {"iter", "returned"} THEN StepsOf(n) \in Completed
             ELSE IF pc = "raised" THEN StepsOf(n) \in Aborted
             ELSE StepsOf(n) \in Underway
    /\ enrich_calls = Cardinality({i \in 1..Len(events) :
                                      events[i].step \in {"enrich", "enrich_raised"}})
    /\ Len(add_log) = Cardinality({i \in 1..Len(events) :
                                      events[i].step \in {"add", "add_raised"}})

\* record i+1 is taken only when record i has its terminal outcome
C21_Step ==
    idx' # idx =>
        /\ idx' = idx + 1
        /\ record' = items[idx + 1].record
        /\ events' = events
        /\ idx > 0 =>
              /\ events # <<>>
              /\ events[Len(events)].rec = idx
              /\ events[Len(events)].step \in {"skip", "dry_run", "add"}

\* C21: within one ingest_file call the records are handled one after the
\* other and each once: for a record the steps are context selection, then
\* grok_enrich or the raw extraction, then exactly one terminal outcome among
\* skip, dry-run log and store; grok_enrich and add_memory are each called at
\* most once per record, and no step of record i+1 comes before the terminal
\* outcome of record i.
C21_RecordsInSequence == []C21_State /\ [][C21_Step]_vars

C21_Witness ==
    /\ pc = "returned"
    /\ processed = 2
    /\ [i \in 1..Len(events) |-> <<events[i].rec, events[i].step>>] =
          <<<<1, "select">>, <<1, "enrich">>, <<1, "skip">>,
            <<2, "select">>, <<2, "enrich">>, <<2, "count">>, <<2, "add">>>>

\* positions of the steps that attach an occurrence count
Counted == {i \in 1..Len(events) : events[i].step = "count"}

\* C22: after each non-skipped record of an ingest_file run the
\* occurrence_count in its metadata is the number of non-skipped records so
\* far in that run, this one and dry-run records included, with exactly the
\* same derived text; the counter is empty at the start of every call, so
\* the first occurrence of a text in a file gets 1.
C22_OccurrenceCountPerRun ==
    /\ \A i \in Counted :
          /\ events[i].text # ""
          /\ events[i].count =
                Cardinality({j \in Counted : j <= i /\ events[j].text = events[i].text})
    /\ \A t \in DOMAIN occurrence_counts :
          occurrence_counts[t] = Cardinality({j \in Counted : events[j].text = t})
    /\ (pc = "store" \/ (InCall /\ outcome \in {"dry_run", "stored"})) =>
          LET last == CHOOSE i \in Counted : \A j \in Counted : j <= i
          IN  /\ events[last].rec = processed
              /\ events[last].text = text
              /\ metadata["occurrence_count"] = events[last].count
    /\ pc = "start" => occurrence_counts = EmptyDict /\ events = <<>>

C22_Witness ==
    /\ pc = "returned" /\ p = 2
    /\ cfg.dry_run
    /\ history[1].result[1] = 1
    /\ \E i, j \in Counted :
          /\ i < j
          /\ events[i].text = events[j].text
          /\ events[i].count = 1 /\ events[j].count = 2
    /\ metadata["occurrence_count"] = 2

(***************************************************************************)
(* The tokenizer of _select_context_mems, applied to a record and to one   *)
(* memory.                                                                 *)
(***************************************************************************)
TokenTexts == {None, "  ", "Sam,Bob went", "Lunch with Sam, at noon.", "e.g. the U.S.A",
               "A  big\tDOG. ok"}

InitTokenize ==
    /\ NoCall
    /\ h_in \in [record : [text : TokenTexts, summary : TokenTexts, location : {"Room, one."}],
                 memory : {[memory |-> t] : t \in TokenTexts}]
    /\ h_out = Unset

\* record_tokens of the record and set(tokenize(text)) of the memory
CallTokenize ==
    /\ pc = "unit"
    /\ h_out = Unset
    /\ h_out' = Some([record_tokens |-> RecordTokens(h_in.record),
                      tokens |-> Range(tokenize(MemText(h_in.memory)))])
    /\ pc' = "unit_done"
    /\ UNCHANGED <<agent, events, outer, h_in, inputs, mem0, items, idx, record, metadata, user_id,
                   processed, stored, occurrence_counts, memories_cache, prior_mems, text,
                   loaded, get_log, fetched, enrich_calls, resp, add_log, outcome, skipped,
                   logged, result, error>>

SpecTokenize == InitTokenize /\ [][CallTokenize]_vars

\* the maximal runs of non-whitespace characters of s, lower-cased
SpaceWords(s) ==
    IF ~IsStr(s) THEN {}
    ELSE LET l == Lower(s)
             Sep(i) == i = 0 \/ i = Len(l) + 1 \/ IsSpace(Char(l, i))
             starts == {a \in 1..Len(l) : Sep(a - 1) /\ ~Sep(a)}
             ends == {b \in 1..Len(l) : ~Sep(b) /\ Sep(b + 1)}
             EndOf(a) == CHOOSE b \in ends : b >= a /\ \A e \in ends : e >= a => b <= e
         IN  {SubSeq(l, a, EndOf(a)) : a \in starts}

IsPunct(ch) == ch \in {",", "."}

\* w without the commas and periods at its ends
RECURSIVE TrimPunct(_)
TrimPunct(w) ==
    IF w = "" THEN w
    ELSE IF IsPunct(Char(w, 1)) THEN TrimPunct(SubSeq(w, 2, Len(w)))
    ELSE IF IsPunct(Char(w, Len(w))) THEN TrimPunct(SubSeq(w, 1, Len(w) - 1))
    ELSE w

\* w without any of its commas and periods
RECURSIVE DropPunct(_)
DropPunct(w) ==
    IF w = "" THEN w
    ELSE (IF IsPunct(Char(w, 1)) THEN "" ELSE Char(w, 1)) \o DropPunct(SubSeq(w, 2, Len(w)))

TrimmedTokens(s) == {w \in {TrimPunct(x) : x \in SpaceWords(s)} : Len(w) >= 3}

DroppedTokens(s) == {w \in {DropPunct(x) : x \in SpaceWords(s)} : Len(w) >= 3}

TextFields(rec) == {Get(rec, k, None) : k \in Range(ContextKeys)}

\* C23 as stated: the text is split on whitespace and the commas and periods
\* are stripped from the resulting words (from their ends, or altogether),
\* which are lower-cased and kept as a set when of length >= 3; the record's
\* tokens are the union over transcription, description, text and summary,
\* and a memory's text is tokenized the same way.
C23_SplitThenStrip ==
    h_out # Unset =>
        \/ /\ Val(h_out).record_tokens = UNION {TrimmedTokens(v) : v \in TextFields(h_in.record)}
           /\ Val(h_out).tokens = TrimmedTokens(MemText(h_in.memory))
        \/ /\ Val(h_out).record_tokens = UNION {DroppedTokens(v) : v \in TextFields(h_in.record)}
           /\ Val(h_out).tokens = DroppedTokens(MemText(h_in.memory))

\* C23 amended: the tokenizer lower-cases the text, takes commas and periods
\* for blanks, splits on whitespace and keeps the words of length >= 3 as a
\* set; the record's tokens are the union over transcription, description,
\* text and summary, and a memory's text is tokenized the same way.
C23_PunctuationSeparates ==
    h_out # Unset =>
        /\ Val(h_out).record_tokens = UNION {Words(v) : v \in TextFields(h_in.record)}
        /\ Val(h_out).tokens = Words(MemText(h_in.memory))

C23_Witness ==
    /\ h_out # Unset
    /\ h_in.record.text = "Sam,Bob went"
    /\ h_in.record.summary = "e.g. the U.S.A"
    /\ h_in.memory = [memory |-> "A  big\tDOG. ok"]
    /\ Val(h_out).record_tokens = {"sam", "bob", "went", "the"}
    /\ Val(h_out).tokens = {"big", "dog"}

\* the fields of the record that hold a string with non-whitespace content
Usable == {k \in DOMAIN h_in.rec : HasContent(h_in.rec[k])}

\* the first key of the record, in its field order, that is in S
FirstKey(S) ==
    h_in.keys[CHOOSE i \in 1..Len(h_in.keys) :
                 h_in.keys[i] \in S /\ \A j \in 1..(i - 1) : h_in.keys[j] \notin S]

\* the first priority field that is in S
FirstPriority(S) ==
    Priority[CHOOSE i \in 1..Len(Priority) :
                Priority[i] \in S /\ \A j \in 1..(i - 1) : Priority[j] \notin S]

\* C24: the raw text of a record is the JSON serialization of the whole
\* record only when no field holds a string with non-whitespace content;
\* whenever a field does, the text is the trimmed value of one field, a
\* priority field if one qualifies and else the first qualifying field in
\* the record's field order, never the JSON of the record.
C24_JsonOnlyAsLastResort ==
    h_out # Unset =>
        LET out == Val(h_out)
        IN  IF Usable = {}
            THEN out = JsonDumps(h_in.rec, h_in.keys)
            ELSE /\ out # JsonDumps(h_in.rec, h_in.keys)
                 /\ \E k \in Usable : out = Trimmed(h_in.rec[k])
                 /\ out = IF Usable \cap Range(Priority) # {}
                          THEN Trimmed(h_in.rec[FirstPriority(Usable)])
                          ELSE Trimmed(h_in.rec[FirstKey(Usable)])

C24_Witness ==
    /\ h_in.rec = [location |-> "Room 1", summary |-> "", text |-> " \n",
                   description |-> None, transcription |-> None, date |-> " 2025-01-05"]
    /\ h_out = Some("Room 1")

(***************************************************************************)
(* Counters of one ingest_file call                                        *)
(***************************************************************************)
\* number of steps of the kind s taken so far in this call
Steps(s) == Cardinality({i \in 1..Len(events) : events[i].step = s})

\* C25: all through an ingest_file run stored <= processed; on normal
\* return processed = (records skipped for empty text) + (records logged in
\* dry-run) + stored, where stored is the number of add_memory calls that
\* returned; with dry_run off and every derived text non-empty, stored =
\* processed.
C25_CountersAddUp ==
    /\ stored <= processed
    /\ stored = Steps("add")
    /\ stored = Cardinality({j \in 1..Len(add_log) : add_log[j].returned})
    /\ pc = "returned" =>
          /\ result = Some(<<processed, stored>>)
          /\ processed = Steps("skip") + Steps("dry_run") + stored
          /\ (~cfg.dry_run /\ Steps("skip") = 0) => stored = processed

C25_Witness ==
    /\ pc = "returned"
    /\ ~cfg.dry_run
    /\ result = Some(<<2, 1>>)
    /\ Steps("skip") = 1 /\ Steps("add") = 1

\* C26: with enrichment disabled no record is skipped: the raw text of every
\* record a loader produces is non-empty (its JSON serialization when no
\* field is usable), so with dry_run off ingest_file returns stored =
\* processed and stores one memory per record, all-null records included.
C26_RawModeNeverSkips ==
    ~cfg.enrich =>
        /\ Steps("skip") = 0 /\ skipped = 0 /\ outcome # "skip"
        /\ text # ""
        /\ \A i \in 1..Len(items) :
              LET raw == _record_to_plain_text(items[i].record, RecordKeys(connector))
              IN  raw # "" /\ raw # None
        /\ (pc = "returned" /\ ~cfg.dry_run) =>
              /\ result = Some(<<Iterated, Iterated>>)
              /\ Len(add_log) = Iterated
              /\ \A n \in 1..Iterated : add_log[n].record = n /\ add_log[n].returned
              /\ \E before \in {<<>>, SeedMemories} :
                    /\ Len(mem0) = Len(before) + Iterated
                    /\ \A n \in 1..Iterated :
                          mem0[Len(before) + n].memory = add_log[n].call.text

C26_Witness ==
    /\ ~cfg.enrich /\ ~cfg.dry_run
    /\ connector = "audio"
    /\ pc = "returned"
    /\ result = Some(<<2, 2>>)
    /\ \A k \in DOMAIN items[1].record : items[1].record[k] = None
    /\ add_log[1].call.text = "{\"transcription\": null, \"filename\": null, \"date\": null}"

(***************************************************************************)
(* The memory list across the files of one ingest_paths run                *)
(***************************************************************************)
\* the memories the add_memory calls of log that returned left in the service
AddedIn(log) ==
    LET done == SelectSeq(log, LAMBDA a : a.returned)
    IN  [j \in 1..Len(done) |-> [user_id |-> done[j].call.user_id,
                                 memory |-> done[j].call.text,
                                 metadata |-> done[j].call.metadata]]

\* what the service holds when the call for path k starts
RECURSIVE ServiceBefore(_)
ServiceBefore(k) ==
    IF k <= 1 THEN SeedMemories
    ELSE ServiceBefore(k - 1) \o AddedIn(history[k - 1].add_log)

ListFor(u, k) == SelectSeq(ServiceBefore(k), LAMBDA m : m.user_id = u)

\* C27: in ingest_paths the memory list is fetched anew for each file, and
\* for file k+1 only after every add_memory call of file k has returned; the
\* list fetched for a file holds, for its user_id, what the files before it
\* stored, and nothing the file itself stores.
C27_FetchSeesEarlierFiles ==
    /\ \A k \in 1..Len(history) :
          /\ Len(history[k].get_log) = IF history[k].result[1] > 0 THEN 1 ELSE 0
          /\ history[k].fetched # Unset =>
                Val(history[k].fetched) = ListFor(history[k].get_log[1], k)
    /\ InCall =>
          /\ Len(get_log) <= 1
          /\ (processed > 0 /\ pc # "fetch") => Len(get_log) = 1
          /\ fetched # Unset =>
                /\ Val(fetched) = ListFor(get_log[1], p)
                /\ memories_cache = fetched
          /\ mem0 = ServiceBefore(p) \o AddedIn(add_log)

C27_Witness ==
    /\ p = 2 /\ pc = "iter" /\ processed = 1
    /\ cfg.user_id = DefaultUserId /\ cfg.enrich
    /\ Len(history[1].add_log) = 2
    /\ history[1].fetched # Unset /\ fetched # Unset
    /\ history[1].add_log[1].call.text = "Lunch with Sam."
    /\ \A j \in 1..Len(Val(history[1].fetched)) :
          MemText(Val(history[1].fetched)[j]) # "Lunch with Sam."
    /\ \E j \in 1..Len(Val(fetched)) : MemText(Val(fetched)[j]) = "Lunch with Sam."
    /\ "Lunch with Sam." \in Range(prior_mems)

(***************************************************************************)
(* ProactiveAgent.chat_message (agent/core.py): the streaming rounds with  *)
(* the chat service and the client-side tool calls between them.           *)
(***************************************************************************)
MaxToolCalls == 2        \* most tool calls in one response

max_rounds == 4

max_words == 35

\* tool calls by what handling them does: a client tool of client_tools_map
\* that returns, one that raises, one whose arguments are not JSON, a client
\* tool that is not in client_tools_map, a server-side tool
ToolCalls ==
    {[type |-> "client_side_tool", known |-> TRUE, args_ok |-> TRUE, raises |-> FALSE],
     [type |-> "client_side_tool", known |-> TRUE, args_ok |-> TRUE, raises |-> TRUE],
     [type |-> "function", known |-> TRUE, args_ok |-> FALSE, raises |-> FALSE],
     [type |-> "function", known |-> FALSE, args_ok |-> TRUE, raises |-> FALSE],
     [type |-> "server_side_tool", known |-> FALSE, args_ok |-> TRUE, raises |-> FALSE]}

LongContent ==
    "a b c d e f g h i j k l m n o p q r s t u v w x y z a b c d e f g h i, j k l"

Contents == {"", " ", "Turn left. Then park.", LongContent}

\* the final response of one stream
Responses == [has_message : BOOLEAN, tool_calls : SeqsUpTo(ToolCalls, MaxToolCalls)]

Exceptions == {"DEADLINE_EXCEEDED: timeout", "connection reset"}

\* _fallback_message picks one of these (the dash of the third is written --)
FallbackOptions ==
    {"Connection's spotty. What were you saying?",
     "Didn't catch that. Try again?",
     "Still here--network hiccup. Go ahead."}

\* str.find(sub): zero-based index of the first occurrence, -1 if none
Find(s, sub) ==
    LET hits == {i \in 1..(Len(s) - Len(sub) + 1) : SubSeq(s, i, i + Len(sub) - 1) = sub}
    IN  IF hits = {} THEN -1 ELSE (CHOOSE i \in hits : \A j \in hits : i <= j) - 1

RECURSIVE JoinWords(_)
JoinWords(ws) ==
    IF ws = <<>> THEN ""
    ELSE IF Len(ws) = 1 THEN ws[1]
    ELSE ws[1] \o " " \o JoinWords(Tail(ws))

\* str.rstrip(",.;:")
RECURSIVE RStripPunct(_)
RStripPunct(s) ==
    IF s # "" /\ Char(s, Len(s)) \in {",", ".", ";", ":"}
    THEN RStripPunct(SubSeq(s, 1, Len(s) - 1)) ELSE s

_enforce_brevity(response) ==
    LET words == Split(response)
        first_period == Find(response, ". ")
        first_sentence == SubSeq(response, 1, first_period + 1)
    IN  IF Len(words) <= max_words THEN response
        ELSE IF /\ 0 < first_period
                /\ 10 * first_period < 7 * Len(response)
                /\ Len(Split(first_sentence)) <= max_words
             THEN first_sentence
        ELSE RStripPunct(JoinWords(SubSeq(words, 1, max_words))) \o "."

\* the except clause of chat_message: the string returned for the exception e
ExceptReply(e) ==
    IF Find(e, "DEADLINE_EXCEEDED") >= 0
    THEN "Network is slow. Want me to keep going or try again?"
    ELSE "Error while contacting xAI (append/stream): " \o e

InitChat ==
    /\ connector = "calendar" /\ path = "bob.json"
    /\ file = [ok |-> FALSE, data |-> EmptyDict]
    /\ cfg = [dry_run |-> FALSE, enrich |-> TRUE, limit |-> Unset, user_id |-> DefaultUserId]
    /\ mem0 = <<>>
    /\ pc = "chat_start"
    /\ FreshCall /\ NoPaths /\ NoUnit /\ NoChat

\* up to the try: the time context and the user message are appended
StartChat ==
    /\ pc = "chat_start"
    /\ chat' = chat \o <<"system", "user">>
    /\ round_idx' = 0
    /\ streamed_content' = ""
    /\ pc' = "chat_loop"
    /\ UNCHANGED <<final_response, pending, reply, rounds, caught, events, outer, unit, inputs,
                   mem0, items, idx, record, metadata, user_id, processed, stored,
                   occurrence_counts, memories_cache, prior_mems, text, loaded, get_log,
                   fetched, enrich_calls, resp, add_log, outcome, skipped, logged, result,
                   error>>

\* mutant of RoundsLeft: the loop test is round_idx <= max_rounds
RoundsLeft_OneMore == round_idx <= max_rounds

\* while round_idx < max_rounds
RoundsLeft == round_idx < max_rounds

\* what follows the stream that left final_response r: the assistant message
\* is appended; without tool calls the loop is left
AfterStream(r) ==
    IF r = Unset
    THEN /\ pc' = "chat_after" /\ UNCHANGED <<chat, pending>>
    ELSE /\ chat' = IF Val(r).has_message THEN Append(chat, "assistant") ELSE chat
         /\ IF Val(r).tool_calls = <<>>
            THEN pc' = "chat_after" /\ UNCHANGED pending
            ELSE pc' = "chat_tools" /\ pending' = Val(r).tool_calls

\* self.chat.stream() runs to its end: no response at all, or a last
\* response, with the content of the chunks
StreamReturns ==
    /\ pc = "chat_loop"
    /\ RoundsLeft
    /\ rounds' = rounds + 1
    /\ \/ /\ final_response' = Unset
          /\ streamed_content' = ""
          /\ AfterStream(Unset)
       \/ \E r \in Responses, c \in Contents :
             /\ final_response' = Some(r)
             /\ streamed_content' = c
             /\ AfterStream(Some(r))
    /\ UNCHANGED <<round_idx, reply, caught, events, outer, unit, inputs,
                   mem0, items, idx, record, metadata, user_id, processed, stored,
                   occurrence_counts, memories_cache, prior_mems, text, loaded, get_log,
                   fetched, enrich_calls, resp, add_log, outcome, skipped, logged, result,
                   error>>

\* self.chat.stream() raises, before or after some chunks
StreamRaises ==
    /\ pc = "chat_loop"
    /\ RoundsLeft
    /\ rounds' = rounds + 1
    /\ final_response' = Unset
    /\ \E c \in Contents : streamed_content' = c
    /\ \E e \in Exceptions : caught' = e /\ reply' = Some(ExceptReply(e))
    /\ pc' = "chat_done"
    /\ UNCHANGED <<chat, round_idx, pending, events, outer, unit, inputs,
                   mem0, items, idx, record, metadata, user_id, processed, stored,
                   occurrence_counts, memories_cache, prior_mems, text, loaded, get_log,
                   fetched, enrich_calls, resp, add_log, outcome, skipped, logged, result,
                   error>>

IsClientTool(tc) == tc.type \in {"function", "client_side_tool"}

\* the next tool call is handled without an exception: a tool of
\* client_tools_map is run and its result appended; any other call is passed
ToolHandled ==
    /\ pc = "chat_tools"
    /\ pending # <<>>
    /\ LET tc == Head(pending)
       IN  /\ IsClientTool(tc) => tc.args_ok /\ (tc.known => ~tc.raises)
           /\ chat' = IF IsClientTool(tc) /\ tc.known THEN Append(chat, "tool_result") ELSE chat
    /\ pending' = Tail(pending)
    /\ UNCHANGED <<round_idx, streamed_content, final_response, reply, rounds, caught, pc, events, outer, unit, inputs,
                   mem0, items, idx, record, metadata, user_id, processed, stored,
                   occurrence_counts, memories_cache, prior_mems, text, loaded, get_log,
                   fetched, enrich_calls, resp, add_log, outcome, skipped, logged, result,
                   error>>

\* json.loads of the arguments or the tool itself raises
ToolRaises ==
    /\ pc = "chat_tools"
    /\ pending # <<>>
    /\ LET tc == Head(pending)
       IN  /\ IsClientTool(tc)
           /\ IF ~tc.args_ok
              THEN /\ caught' = "Expecting value: line 1 column 1 (char 0)"
                   /\ reply' = Some(ExceptReply(caught'))
              ELSE /\ tc.known /\ tc.raises
                   /\ \E e \in Exceptions : caught' = e /\ reply' = Some(ExceptReply(e))
    /\ pc' = "chat_done"
    /\ UNCHANGED <<chat, round_idx, streamed_content, final_response, pending, rounds, events, outer, unit, inputs,
                   mem0, items, idx, record, metadata, user_id, processed, stored,
                   occurrence_counts, memories_cache, prior_mems, text, loaded, get_log,
                   fetched, enrich_calls, resp, add_log, outcome, skipped, logged, result,
                   error>>

\* all tool calls are handled: round_idx += 1, then the loop test and, if
\* it holds, the resets that open the next round
EndRound ==
    /\ pc = "chat_tools"
    /\ pending = <<>>
    /\ round_idx' = round_idx + 1
    /\ IF RoundsLeft'
       THEN streamed_content' = "" /\ final_response' = Unset /\ pc' = "chat_loop"
       ELSE pc' = "chat_after" /\ UNCHANGED <<streamed_content, final_response>>
    /\ UNCHANGED <<chat, pending, reply, rounds, caught, events, outer, unit, inputs,
                   mem0, items, idx, record, metadata, user_id, processed, stored,
                   occurrence_counts, memories_cache, prior_mems, text, loaded, get_log,
                   fetched, enrich_calls, resp, add_log, outcome, skipped, logged, result,
                   error>>

\* self._enforce_brevity over the contents a stream can give
Brevity == [c \in Contents |-> _enforce_brevity(c)]

\* after the loop: the trimmed content, or a fallback when it is empty
Finish ==
    /\ pc = "chat_after"
    /\ IF streamed_content # ""
       THEN reply' = Some(Brevity[streamed_content])
       ELSE \E f \in FallbackOptions : reply' = Some(f)
    /\ pc' = "chat_done"
    /\ UNCHANGED <<chat, round_idx, streamed_content, final_response, pending, rounds, caught,
                   events, outer, unit, inputs,
                   mem0, items, idx, record, metadata, user_id, processed, stored,
                   occurrence_counts, memories_cache, prior_mems, text, loaded, get_log,
                   fetched, enrich_calls, resp, add_log, outcome, skipped, logged, result,
                   error>>

NextChat ==
    \/ StartChat
    \/ StreamReturns
    \/ StreamRaises
    \/ ToolHandled
    \/ ToolRaises
    \/ EndRound
    \/ Finish

SpecChat == InitChat /\ [][NextChat]_vars /\ WF_vars(NextChat)

ToolsRequested == final_response # Unset /\ Val(final_response).tool_calls # <<>>

C28_State ==
    /\ rounds <= max_rounds
    /\ pc = "chat_loop" => rounds = round_idx /\ round_idx < max_rounds
    /\ pc = "chat_tools" => ToolsRequested /\ rounds = round_idx + 1
    /\ pc = "chat_after" => ~ToolsRequested \/ rounds = max_rounds
    /\ pc = "chat_done" =>
          /\ reply # Unset
          /\ caught # "none" =>
                Val(reply) \in {"Network is slow. Want me to keep going or try again?",
                                "Error while contacting xAI (append/stream): " \o caught}
          /\ caught = "none" /\ streamed_content = "" =>
                Val(reply) \in FallbackOptions
          /\ caught = "none" /\ streamed_content # "" =>
                /\ Val(reply) \notin FallbackOptions
                /\ Len(Split(Val(reply))) <= max_words

C28_Step ==
    /\ pc = "chat_loop" /\ pc' = "chat_after" => ~ToolsRequested'
    /\ pc = "chat_tools" /\ pc' = "chat_tools" =>
          LET tc == Head(pending)
          IN  chat' = IF tc.type \in {"function", "client_side_tool"} /\ tc.known
                      THEN Append(chat, "tool_result") ELSE chat
    /\ pc = "chat_tools" /\ pc' = "chat_loop" =>
          pending = <<>> /\ round_idx' = round_idx + 1
    /\ pc = "chat_tools" /\ pc' = "chat_after" =>
          pending = <<>> /\ rounds = max_rounds

\* C28: one chat_message call always ends with a returned string after at
\* most 4 streaming rounds: a round without tool calls leaves the loop, a
\* round with tool calls runs the tools of client_tools_map and opens the
\* next round, the 4th round leaves the loop even when tools were requested;
\* an exception of the stream, of the argument parsing or of a tool becomes
\* the returned string, and an empty content gives a fallback message.
C28_ChatTerminates ==
    /\ []C28_State
    /\ [][C28_Step]_vars
    /\ <>(pc = "chat_done")

\* the 4th round still requested tools, they were run, and the call returned
\* the shortened content of that round
C28_Witness ==
    /\ pc = "chat_done"
    /\ rounds = max_rounds /\ round_idx = max_rounds
    /\ ToolsRequested
    /\ caught = "none"
    /\ streamed_content = LongContent
    /\ reply = Some("a b c d e f g h i j k l m n o p q r s t u v w x y z a b c d e f g h i.")
    /\ chat[Len(chat)] = "tool_result"

====
